---- MODULE Spec2Model ----
(***************************************************************************)
(* A model of the OME compiler front end (ome/parser.py).                  *)
(*                                                                         *)
(* The source text is a sequence of one-character strings.  The parser     *)
(* state of ParserState is the record ps; every method of Parser is an     *)
(* operator taking the parser state and returning the new parser state     *)
(* with the method's value, [s |-> state, v |-> value, failed |-> whether  *)
(* an exception is raised].  A raised exception is the field err of the    *)
(* state: once set, every operator returns at once, as an exception        *)
(* unwinds the Python call stack.  A method with a loop is a recursive     *)
(* operator for the loop, which at the end of the loop goes on with the    *)
(* rest of the method.                                                     *)
(*                                                                         *)
(* Positions are 0-based as in Python: the character at position p is      *)
(* stream[p + 1].                                                          *)
(***************************************************************************)
EXTENDS Integers, Sequences, FiniteSets, TLC

VARIABLES
    inp,        \* description of the source text under test (ghost)
    stream,     \* ParserState.stream: the source text
    ps,         \* the Parser object's state (ParserState fields, err, logs)
    result,     \* value returned by Parser.toplevel()
    pc,         \* "start" before parse_file runs the parser, "done" after
    ast,        \* the resolved AST handed to Program (ghost)
    program,    \* the Program object of compiler.py
    idalloc,    \* an IdAllocator object of idalloc.py and its block list
    out,        \* what Program has written, in order
    ppc,        \* the method of Program that runs next
    builder,    \* the MethodCodeBuilder object of builder.py, or the code under test
    asm,        \* the assembly text of one procedure, line by line
    cpu,        \* the processor that runs the procedure
    bpc         \* the method of MethodCodeBuilder that runs next

parser_vars == <<inp, stream, ps, result, pc>>

program_vars == <<ast, program, idalloc, out, ppc>>

builder_vars == <<builder, asm, cpu, bpc>>

vars == <<inp, stream, ps, result, pc, ast, program, idalloc, out, ppc,
          builder, asm, cpu, bpc>>

----------------------------------------------------------------------------
(* Bounds of the inputs *)

MaxWhole == 3       \* digits in the integer part of a number literal
MaxFrac == 2        \* digits in the fraction of a number literal
MaxArgs == 16       \* arguments of the longest send / signature tried
MaxStmts == 3       \* statements in an indentation test
MaxIndent == 2      \* first column of the statements in an indentation test
MaxParts == 2       \* keyword parts of a send or of a signature
MaxSlots == 2       \* slot definitions of a block
MaxMethods == 2     \* method definitions of a block

----------------------------------------------------------------------------
(* Characters and character classes of the regular expressions *)

Letters == {"a", "b", "c", "d", "e", "f", "g", "h", "i", "j", "k", "l", "m",
            "n", "o", "p", "q", "r", "s", "t", "u", "v", "w", "x", "y", "z",
            "A", "B", "C", "D", "E", "F", "G", "H", "I", "J", "K", "L", "M",
            "N", "O", "P", "Q", "R", "S", "T", "U", "V", "W", "X", "Y", "Z"}

Digits == {"0", "1", "2", "3", "4", "5", "6", "7", "8", "9"}

AlNum == Letters \cup Digits

\* [ \r\n\t] of re_spaces
SpaceChars == {" ", "\r", "\n", "\t"}

None == [type |-> "None"]

\* The character at 0-based position p, "" past the end of the stream.
CharAt(p) == IF p >= 0 /\ p < Len(stream) THEN stream[p + 1] ELSE ""

\* stream[a : b]
Slice(a, b) == IF b <= a THEN <<>> ELSE SubSeq(stream, a + 1, b)

\* The end of the longest run of characters of class cls starting at p.
RECURSIVE SkipClass(_, _)
SkipClass(cls, p) == IF CharAt(p) \in cls THEN SkipClass(cls, p + 1) ELSE p

\* (?:-[a-zA-Z0-9]+)* starting at p
RECURSIVE HyphenGroups(_)
HyphenGroups(p) ==
    IF CharAt(p) = "-" /\ CharAt(p + 1) \in AlNum
    THEN HyphenGroups(SkipClass(AlNum, p + 1))
    ELSE p

\* ~?[a-zA-Z][a-zA-Z0-9]*(?:-[a-zA-Z0-9]+)* at p (the ~? only when tilde);
\* the end of the match, or -1
NameEnd(p, tilde) ==
    LET p0 == IF tilde /\ CharAt(p) = "~" THEN p + 1 ELSE p
    IN  IF CharAt(p0) \in Letters
        THEN HyphenGroups(SkipClass(AlNum, p0 + 1))
        ELSE -1

re_name(p) == NameEnd(p, TRUE)

re_arg_name(p) == NameEnd(p, FALSE)

\* a name followed by ':'; the name's character classes exclude ':', so no
\* shorter name can be followed by it
re_keyword(p) ==
    LET e == NameEnd(p, TRUE)
    IN  IF e >= 0 /\ CharAt(e) = ":" THEN e + 1 ELSE -1

\* [+-]?[0-9]+ at p: the end of the match, or -1
SignedDigitsEnd(p) ==
    LET p0 == IF CharAt(p) \in {"+", "-"} THEN p + 1 ELSE p
    IN  IF CharAt(p0) \in Digits THEN SkipClass(Digits, p0) ELSE -1

\* re_number from the end x of (?:e([+-]?[0-9]+))?, -1 when it is absent;
\* group 1 ends at w and (?:\.([0-9]+))? at d
NumberGroups(p, w, d, x) ==
    [end |-> IF x >= 0 THEN x ELSE d,
     whole |-> Slice(p, w),
     decimal |-> IF d > w THEN Slice(w + 1, d) ELSE <<>>,
     exponent |-> IF x >= 0 THEN Slice(d + 1, x) ELSE <<>>]

\* re_number from (?:e([+-]?[0-9]+))? at d
NumberExponent(p, w, d) ==
    NumberGroups(p, w, d, IF CharAt(d) = "e" THEN SignedDigitsEnd(d + 1) ELSE -1)

\* re_number from (?:\.([0-9]+))? at w, the end of group 1
NumberDecimal(p, w) ==
    NumberExponent(p, w, IF CharAt(w) = "." /\ CharAt(w + 1) \in Digits
                         THEN SkipClass(Digits, w + 1) ELSE w)

\* ([+-]?[0-9]+)(?:\.([0-9]+))?(?:e([+-]?[0-9]+))? at p: the groups and the
\* end of the match (end = -1: no match); a group that did not take part in
\* the match is <<>>, which Python's "if group" treats like None
re_number_groups(p) ==
    IF SignedDigitsEnd(p) < 0
    THEN [end |-> -1, whole |-> <<>>, decimal |-> <<>>, exponent |-> <<>>]
    ELSE NumberDecimal(p, SignedDigitsEnd(p))

re_number(p) == re_number_groups(p).end

\* (?:\\'|[^\r\n'])* followed by ' , from p, with the regex engine's order:
\* the escape first, then a plain character, then the end of the loop
RECURSIVE StringBody(_)
StringBody(p) ==
    LET a == IF CharAt(p) = "\\" /\ CharAt(p + 1) = "'"
             THEN StringBody(p + 2) ELSE -1
        b == IF CharAt(p) \notin {"", "\r", "\n", "'"}
             THEN StringBody(p + 1) ELSE -1
    IN  IF a >= 0 THEN a
        ELSE IF b >= 0 THEN b
        ELSE IF CharAt(p) = "'" THEN p + 1 ELSE -1

re_string(p) == IF CharAt(p) = "'" THEN StringBody(p + 1) ELSE -1

\* =|:=
re_assign(p) ==
    IF CharAt(p) = "=" THEN p + 1
    ELSE IF CharAt(p) = ":" /\ CharAt(p + 1) = "=" THEN p + 2
    ELSE -1

\* [|)}\]]
re_end_token(p) == IF CharAt(p) \in {"|", ")", "}", "]"} THEN p + 1 ELSE -1

\* [^\r\n]* from p
RECURSIVE LineEnd(_)
LineEnd(p) == IF CharAt(p) \in {"", "\r", "\n"} THEN p ELSE LineEnd(p + 1)

\* (?:#|--)([^\r\n]*) at p: the start of group 1 and the end of the match
re_comment(p) ==
    IF CharAt(p) = "#" THEN [start |-> p + 1, end |-> LineEnd(p + 1)]
    ELSE IF CharAt(p) = "-" /\ CharAt(p + 1) = "-"
    THEN [start |-> p + 2, end |-> LineEnd(p + 2)]
    ELSE [start |-> -1, end |-> -1]

\* [ \r\n\t]*
re_spaces(p) == SkipClass(SpaceChars, p)

\* pattern.match(stream, p) for the compiled expressions, and the comparison
\* stream[p : p + len(pattern)] == pattern for a literal: the end of the
\* match, or -1.  The literals the parser uses are single characters.
MatchEnd(pattern, p) ==
    CASE pattern = "re_name"      -> re_name(p)
      [] pattern = "re_arg_name"  -> re_arg_name(p)
      [] pattern = "re_keyword"   -> re_keyword(p)
      [] pattern = "re_number"    -> re_number(p)
      [] pattern = "re_string"    -> re_string(p)
      [] pattern = "re_assign"    -> re_assign(p)
      [] pattern = "re_end_token" -> re_end_token(p)
      [] OTHER -> IF CharAt(p) = pattern THEN p + 1 ELSE -1

----------------------------------------------------------------------------
(* ParserState *)

NoError == [kind |-> "none", message |-> "", line |-> 0, column |-> 0]

\* ParserState.__init__; err and the logs calls, starts, nodes and returns are
\* ghost fields: the exception raised, every expr_token call, every statement
\* started by statement_lines, every AST node constructed, and every normal
\* return of block, statements and array.
InitState ==
    [pos |-> 0, line_pos |-> 0, line_number |-> 1, line_indent |-> 0,
     indent_level |-> -1, indent_line |-> -1, indent_stack |-> <<>>,
     comments |-> <<>>,
     err |-> NoError, calls |-> <<>>, starts |-> <<>>, nodes |-> <<>>,
     returns |-> <<>>]

\* ParserState.copy_state: the fields of the position, as the copies kept
\* in parse_state variables and in AST nodes are only read for them
copy_state(s) ==
    [pos |-> s.pos, line_pos |-> s.line_pos, line_number |-> s.line_number,
     line_indent |-> s.line_indent, indent_level |-> s.indent_level,
     indent_line |-> s.indent_line, indent_stack |-> s.indent_stack]

\* ParserState.column
column(s) == s.pos - s.line_pos

Failed(s) == s.err.kind # "none"

\* the indentation fields of a state
indentation(s) == <<s.indent_level, s.indent_line, s.indent_stack>>

\* the ghost log of normal returns: method called on state s returned r;
\* started counts the statements its statement_lines loop started
returned(method, s, r) ==
    IF r.failed THEN r
    ELSE [r EXCEPT !.s.returns =
              Append(@, [method |-> method, depth |-> Len(s.indent_stack),
                         started |-> Len(r.s.starts) - Len(s.starts),
                         entry |-> indentation(s), exit |-> indentation(r.s)])]

\* the pair a method returns: the state it leaves and its value
Ret(s, v) == [s |-> s, v |-> v, failed |-> Failed(s)]

\* an exception of class kind raised with the position of state at
Raise(s, kind, message, at) ==
    [s EXCEPT !.err = [kind |-> kind, message |-> message,
                       line |-> at.line_number, column |-> column(at)]]

\* ParserState.error called on the state at (self or a saved parse_state)
error(s, at, message) == Raise(s, "Error", message, at)

----------------------------------------------------------------------------
(* Parser: the scanner *)

\* self.method(args), the call of a method through the Parser object, for
\* the calls of scan, match and peek, the calls made in the body of a loop,
\* and the call of toplevel by parse_file: call is the method's name and
\* the arguments, which are evaluated before the method is entered.
RECURSIVE self(_)

tab_width == 8

NoMatch == [ok |-> FALSE, start |-> 0, end |-> 0]

\* m.group()
Group(m) == Slice(m.start, m.end)

\* Parser.match, given the end e of the match at the current position
Matched(s, e) ==
    IF e >= 0
    THEN Ret([s EXCEPT !.pos = e], [ok |-> TRUE, start |-> s.pos, end |-> e])
    ELSE Ret(s, NoMatch)

\* Parser.match
match(s, pattern) == Matched(s, MatchEnd(pattern, s.pos))

\* Parser.peek
peek(s, pattern) == MatchEnd(pattern, s.pos) >= 0

\* spaces.count('\n') after re_newline.sub('\n', spaces): "\r\n", "\r" and
\* "\n" each count once
RECURSIVE CountNewlines(_)
CountNewlines(sp) ==
    IF sp = <<>> THEN 0
    ELSE IF Head(sp) = "\n" THEN 1 + CountNewlines(Tail(sp))
    ELSE IF Head(sp) = "\r"
         THEN IF Len(sp) >= 2 /\ sp[2] = "\n"
              THEN 1 + CountNewlines(Tail(Tail(sp)))
              ELSE 1 + CountNewlines(Tail(sp))
    ELSE CountNewlines(Tail(sp))

\* spaces.rsplit('\n', 1)[1]: what follows the last newline
RECURSIVE AfterLastNewline(_)
AfterLastNewline(sp) ==
    IF sp = <<>> \/ sp[Len(sp)] \in {"\r", "\n"} THEN <<>>
    ELSE Append(AfterLastNewline(SubSeq(sp, 1, Len(sp) - 1)), sp[Len(sp)])

\* len(indent.expandtabs(width)) with the column col reached so far
RECURSIVE ExpandTabsLen(_, _, _)
ExpandTabsLen(indent, width, col) ==
    IF indent = <<>> THEN col
    ELSE IF Head(indent) = "\t"
         THEN ExpandTabsLen(Tail(indent), width, col + (width - (col % width)))
         ELSE ExpandTabsLen(Tail(indent), width, col + 1)

\* str.strip() of the characters that can occur in a comment
RECURSIVE Strip(_)
Strip(t) ==
    IF t = <<>> THEN t
    ELSE IF Head(t) \in {" ", "\t"} THEN Strip(Tail(t))
    ELSE IF t[Len(t)] \in {" ", "\t"} THEN Strip(SubSeq(t, 1, Len(t) - 1))
    ELSE t

\* the loop of Parser.scan
RECURSIVE scan_loop(_)
scan_loop(s) ==
    LET e == re_spaces(s.pos)
        spaces == Slice(s.pos, e)
        new_lines == CountNewlines(spaces)
        indent == AfterLastNewline(spaces)
        s1 == [s EXCEPT !.pos = e,
                        !.line_number = @ + new_lines,
                        !.line_pos = IF new_lines > 0 THEN e - Len(indent) ELSE @,
                        !.line_indent = IF new_lines > 0
                                        THEN ExpandTabsLen(indent, tab_width, 0)
                                        ELSE @]
        c == re_comment(e)
    IN  IF c.end >= 0
        THEN scan_loop([s1 EXCEPT !.pos = c.end,
                                  !.comments = Append(@, Strip(Slice(c.start, c.end)))])
        ELSE s1

\* Parser.scan
scan(s) == scan_loop([s EXCEPT !.comments = <<>>])

\* Parser.set_indent
set_indent(s) ==
    [s EXCEPT !.indent_level = s.pos - s.line_pos, !.indent_line = s.line_number]

\* Parser.push_indent
push_indent(s) ==
    [s EXCEPT !.indent_stack = Append(@, <<s.indent_level, s.indent_line>>)]

\* pop_indent restoring the level and leaving indent_line as it is
pop_indent_level_only(s) ==
    IF s.indent_stack = <<>>
    THEN Raise(s, "IndexError", "pop from empty list", s)
    ELSE [s EXCEPT !.indent_level = s.indent_stack[Len(s.indent_stack)][1],
                   !.indent_stack = SubSeq(@, 1, Len(@) - 1)]

\* Parser.pop_indent; list.pop() of an empty list raises IndexError
pop_indent(s) ==
    IF s.indent_stack = <<>>
    THEN Raise(s, "IndexError", "pop from empty list", s)
    ELSE LET top == s.indent_stack[Len(s.indent_stack)]
         IN  [s EXCEPT !.indent_level = top[1], !.indent_line = top[2],
                       !.indent_stack = SubSeq(@, 1, Len(@) - 1)]

\* has_more_tokens with >= for >
has_more_tokens_at_level(s) ==
    /\ s.pos < Len(stream)
    /\ \/ (s.pos - s.line_pos) >= s.indent_level
       \/ s.line_number = s.indent_line

\* Parser.has_more_tokens
has_more_tokens(s) ==
    /\ s.pos < Len(stream)
    /\ \/ (s.pos - s.line_pos) > s.indent_level
       \/ s.line_number = s.indent_line

\* the return of expr_token with the call logged: s1 is the state scan()
\* left and r the state and the value to return
expr_token_logged(s1, pattern, r) ==
    Ret([r.s EXCEPT !.calls =
             Append(@, [pattern |-> pattern, at |-> copy_state(s1),
                        fits |-> self(<<"peek", s1, pattern>>),
                        ok |-> r.v.ok, pos_after |-> r.s.pos])],
        r.v)

\* Parser.expr_token
expr_token(s, pattern) ==
    LET s1 == self(<<"scan", s>>)
    IN  IF has_more_tokens(s1)
        THEN expr_token_logged(s1, pattern, self(<<"match", s1, pattern>>))
        ELSE expr_token_logged(s1, pattern, Ret(s1, NoMatch))

\* Parser.token
token(s, pattern) == self(<<"match", self(<<"scan", s>>), pattern>>)

\* Parser.expect_token
expect_token(s, pattern, message) ==
    LET r == token(s, pattern)
    IN  IF r.v.ok THEN r ELSE Ret(error(r.s, r.s, message), NoMatch)

----------------------------------------------------------------------------
(* AST nodes (ome/ast.py) and names *)

\* a Python string as the sequence of its characters
self_name == <<"s", "e", "l", "f">>

true_name == <<"t", "r", "u", "e">>

false_name == <<"f", "a", "l", "s", "e">>

\* the names of the dict reserved_names
reserved_names == {self_name, true_name, false_name}

\* reserved_names[name]: the built-in node of a reserved name
BuiltInNode(name) == [type |-> "BuiltIn", name |-> name]

MAX_ARRAY_SIZE == 4

Send(receiver, symbol, args, parse_state) ==
    [type |-> "Send", receiver |-> receiver, symbol |-> symbol, args |-> args,
     parse_state |-> parse_state]

Number(significand, exponent, parse_state) ==
    [type |-> "Number", significand |-> significand, exponent |-> exponent,
     parse_state |-> parse_state]

String(text) == [type |-> "String", text |-> text]

Array(elems) == [type |-> "Array", elems |-> elems]

LocalVariable(name, expr) == [type |-> "LocalVariable", name |-> name, expr |-> expr]

BlockVariable(name, mutable, index) ==
    [type |-> "BlockVariable", name |-> name, mutable |-> mutable, index |-> index]

Method(symbol, args, expr) ==
    [type |-> "Method", symbol |-> symbol, args |-> args, expr |-> expr]

Block(slots, methods) == [type |-> "Block", slots |-> slots, methods |-> methods]

Sequence(statements) == [type |-> "Sequence", statements |-> statements]

EmptyBlock == [type |-> "EmptyBlock"]

\* bool(x) of a value that is None or an AST node
Truthy(x) == x.type # "None"

\* the ghost log of constructed nodes
Log(s, entry) == [s EXCEPT !.nodes = Append(@, entry)]

----------------------------------------------------------------------------
(* Number literals *)

DigitValue(c) ==
    CASE c = "0" -> 0 [] c = "1" -> 1 [] c = "2" -> 2 [] c = "3" -> 3
      [] c = "4" -> 4 [] c = "5" -> 5 [] c = "6" -> 6 [] c = "7" -> 7
      [] c = "8" -> 8 [] c = "9" -> 9

RECURSIVE DigitsValue(_)
DigitsValue(ds) ==
    IF ds = <<>> THEN 0
    ELSE 10 * DigitsValue(SubSeq(ds, 1, Len(ds) - 1)) + DigitValue(ds[Len(ds)])

\* int(text, 10) of an optional sign and digits; with no digit after the
\* sign Python raises ValueError (ok = FALSE)
int(text) ==
    LET signed == text # <<>> /\ Head(text) \in {"+", "-"}
        ds == IF signed THEN Tail(text) ELSE text
    IN  IF ds = <<>> \/ \E i \in 1..Len(ds) : ds[i] \notin Digits
        THEN [ok |-> FALSE, value |-> 0]
        ELSE [ok |-> TRUE,
              value |-> IF signed /\ Head(text) = "-"
                        THEN 0 - DigitsValue(ds) ELSE DigitsValue(ds)]

\* text.rstrip('0')
RECURSIVE rstrip0(_)
rstrip0(text) ==
    IF text # <<>> /\ text[Len(text)] = "0"
    THEN rstrip0(SubSeq(text, 1, Len(text) - 1))
    ELSE text

RECURSIVE Pow10(_)
Pow10(n) == IF n <= 0 THEN 1 ELSE 10 * Pow10(n - 1)

\* Parser.atom, the conversion of the groups of re_number to the significand
\* and exponent of the Number node
number(whole, decimal_group, exponent_group) ==
    LET whole_stripped == IF rstrip0(whole) # <<>> THEN rstrip0(whole) ELSE <<"0">>
        sig0 == int(whole_stripped)
        trailing == Len(whole) - Len(whole_stripped)
        exp0 == (IF exponent_group # <<>> THEN int(exponent_group).value ELSE 0)
                + trailing
        decimal == IF decimal_group # <<>> THEN rstrip0(decimal_group) ELSE <<>>
    IN  IF ~sig0.ok
        THEN [ok |-> FALSE, significand |-> 0, exponent |-> 0]
        ELSE IF decimal # <<>>
        THEN [ok |-> TRUE,
              significand |-> sig0.value * Pow10(Len(decimal)) + int(decimal).value,
              exponent |-> exp0 - Len(decimal)]
        ELSE [ok |-> TRUE, significand |-> sig0.value, exponent |-> exp0]

----------------------------------------------------------------------------
(* Parser: the grammar *)

\* the loops of the methods
RECURSIVE signature_commas(_, _, _), signature_keywords(_, _, _),
          block_slots(_, _, _, _), block_methods(_, _, _),
          statements_loop(_, _, _, _), array_loop(_, _, _, _),
          expr_commas(_, _, _), expr_keywords(_, _, _, _, _, _),
          unaryexpr_loop(_, _)

\* Parser.check_name: the state left (the name is returned as it is)
check_name(s, name, parse_state) ==
    IF name \in reserved_names THEN error(s, s, "is a reserved name") ELSE s

\* Parser.argument_name
argument_name(s) ==
    LET s1 == self(<<"scan", s>>)
    IN  IF self(<<"peek", s1, "re_keyword">>)
        THEN Ret(error(s1, s1, "Expected argument name"), <<>>)
        ELSE LET m == expect_token(s1, "re_arg_name", "Expected argument name")
             IN  Ret(m.s, Group(m.v))

\* check_num_params with > for >=
check_num_params_off_by_one(s, n, parse_state) ==
    IF n > 16 THEN error(s, parse_state, "Seriously? Too many parameters") ELSE s

\* Parser.check_num_params
check_num_params(s, n, parse_state) ==
    IF n >= 16 THEN error(s, parse_state, "Seriously? Too many parameters") ELSE s

\* Parser.signature, the loop over ',' argument names of one keyword
signature_commas(s, symbol, argnames) ==
    LET t == token(s, ",")
        a == argument_name(t.s)
    IN  IF ~t.v.ok \/ a.failed
        THEN IF ~t.v.ok
             THEN Ret(t.s, [symbol |-> symbol, argnames |-> argnames])
             ELSE Ret(a.s, None)
        ELSE signature_commas(a.s, symbol \o <<",">>, Append(argnames, a.v))

\* Parser.signature from the end of the loop over the keywords
signature_end(s, symbol, argnames) ==
    LET parse_state == copy_state(s)
        m == expect_token(s, "re_name", "Expected name or keyword")
        n == IF symbol # <<>> THEN Ret(s, symbol)
             ELSE IF m.failed THEN Ret(m.s, <<>>)
             ELSE Ret(check_name(m.s, Group(m.v), parse_state), Group(m.v))
        c == check_num_params(n.s, Len(argnames), n.s)
    IN  IF n.failed THEN Ret(n.s, None)
        ELSE IF Failed(c) THEN Ret(c, None)
        ELSE Ret(Log(c, [type |-> "Signature", symbol |-> n.v,
                         argnames |-> argnames]),
                 [symbol |-> n.v, argnames |-> argnames])

\* Parser.signature, the loop over the keywords and what follows it
signature_keywords(s, symbol, argnames) ==
    LET t == token(s, "re_keyword")
        part == Group(t.v)
        a == argument_name(t.s)
        c == signature_commas(a.s, symbol \o part, Append(argnames, a.v))
    IN  IF \/ ~t.v.ok
           \/ part[1] = "~" /\ symbol # <<>>
           \/ a.failed
           \/ c.failed
        THEN IF ~t.v.ok THEN signature_end(t.s, symbol, argnames)
             ELSE IF part[1] = "~" /\ symbol # <<>>
             THEN Ret(error(t.s, t.s, "Expected keyword"), None)
             ELSE IF a.failed THEN Ret(a.s, None)
             ELSE Ret(c.s, None)
        ELSE signature_keywords(c.s, c.v.symbol, c.v.argnames)

\* Parser.signature
signature(s) == signature_keywords(s, <<>>, <<>>)

\* Parser.statement_lines from the top of the loop to the yield: stop is
\* the end of the generator.  list_column is a ghost: the column of the
\* first statement of this list, -1 before it; the statement started is
\* logged.
statement_lines_head(s, prev_indent_line, list_column) ==
    LET s1 == self(<<"scan", s>>)
        s2 == set_indent(s1)
        start == [line |-> s2.line_number, column |-> column(s2),
                  prev_indent_line |-> prev_indent_line,
                  list_column |-> list_column]
    IN  IF self(<<"peek", s1, "re_end_token">>) \/ s1.pos >= Len(stream)
        THEN [s |-> s1, stop |-> TRUE, failed |-> FALSE,
              prev_indent_line |-> prev_indent_line]
        ELSE IF s2.line_number = prev_indent_line
        THEN [s |-> error(s2, s2, "Expected end of statement"), stop |-> TRUE,
              failed |-> TRUE, prev_indent_line |-> prev_indent_line]
        ELSE [s |-> [s2 EXCEPT !.starts = Append(@, start)], stop |-> FALSE,
              failed |-> FALSE, prev_indent_line |-> s2.indent_line]

\* Parser.statement_lines from the yield to the end of the loop body
statement_lines_tail(s, prev_indent_line) ==
    LET t == token(s, ";")
    IN  [s |-> t.s,
         prev_indent_line |-> IF t.v.ok THEN -1 ELSE prev_indent_line]

\* the ghost list_column after a statement at h.s started
ListColumn(h, list_column) == IF list_column < 0 THEN column(h.s) ELSE list_column

\* Parser.block from the scan() that follows pop_indent(): s is the state
\* the scan left, slots, statements and methods the locals
block_result(s, slots, statements, methods) ==
    IF Failed(s) THEN Ret(s, None)
    ELSE IF s.pos < Len(stream) /\ ~self(<<"peek", s, "}">>)
    THEN Ret(error(s, s, "Expected declaration or end of block"), None)
    ELSE IF slots = <<>> /\ methods = <<>> THEN Ret(s, EmptyBlock)
    ELSE Ret(Log(s, [type |-> "Block", slots |-> slots,
                     methods |-> [i \in 1..Len(methods) |-> methods[i].symbol]]),
             IF statements # <<>>
             THEN Sequence(Append(statements, Block(slots, methods)))
             ELSE Block(slots, methods))

\* block_methods without the check of the method symbol against the slots
block_methods_slots_unchecked(s, variables, acc) ==
    LET b  == token(s, "|")
        sg == self(<<"signature", b.s>>)
        symbol == sg.v.symbol
        x  == expect_token(sg.s, "|", "Expected '|'")
        st == self(<<"statements", x.s>>)
        acc1 == [methods |-> Append(acc.methods,
                                    Method(symbol, sg.v.argnames, st.v)),
                 defined_methods |-> acc.defined_methods \cup {symbol}]
    IN  IF \/ ~b.v.ok
           \/ sg.failed
           \/ symbol \in acc.defined_methods
           \/ x.failed
           \/ st.failed
        THEN IF ~b.v.ok
             THEN block_result(self(<<"scan", pop_indent(b.s)>>),
                               variables.slots, variables.statements, acc.methods)
             ELSE IF sg.failed THEN Ret(sg.s, None)
             ELSE IF symbol \in acc.defined_methods
             THEN Ret(error(sg.s, sg.s, "Method is already defined"), None)
             ELSE IF x.failed THEN Ret(x.s, None)
             ELSE Ret(st.s, None)
        ELSE block_methods(st.s, variables, acc1)

\* Parser.block, the loop over the methods and what follows it;
\* variables holds the locals slots, statements and defined_symbols, acc the
\* locals methods and defined_methods
block_methods(s, variables, acc) ==
    LET b  == token(s, "|")
        sg == self(<<"signature", b.s>>)
        symbol == sg.v.symbol
        x  == expect_token(sg.s, "|", "Expected '|'")
        st == self(<<"statements", x.s>>)
        acc1 == [methods |-> Append(acc.methods,
                                    Method(symbol, sg.v.argnames, st.v)),
                 defined_methods |-> acc.defined_methods \cup {symbol}]
    IN  IF \/ ~b.v.ok
           \/ sg.failed
           \/ symbol \in acc.defined_methods
           \/ symbol \in variables.defined_symbols
           \/ x.failed
           \/ st.failed
        THEN IF ~b.v.ok
             THEN block_result(self(<<"scan", pop_indent(b.s)>>),
                               variables.slots, variables.statements, acc.methods)
             ELSE IF sg.failed THEN Ret(sg.s, None)
             ELSE IF symbol \in acc.defined_methods
             THEN Ret(error(sg.s, sg.s, "Method is already defined"), None)
             ELSE IF symbol \in variables.defined_symbols
             THEN Ret(error(sg.s, sg.s, "Method conflicts with variable definition"),
                      None)
             ELSE IF x.failed THEN Ret(x.s, None)
             ELSE Ret(st.s, None)
        ELSE block_methods(st.s, variables, acc1)

\* Parser.block, the loop over the slot definitions and what follows it;
\* acc holds the locals slots, statements and defined_symbols
block_slots(s, prev_indent_line, list_column, acc) ==
    LET h  == statement_lines_head(s, prev_indent_line, list_column)
        s1 == self(<<"scan", h.s>>)
        parse_state == copy_state(s1)
        m  == token(s1, "re_name")
        name == Group(m.v)
        c  == check_name(m.s, name, parse_state)
        a  == expect_token(c, "re_assign", "Expected '=' or ':='")
        mutable == Group(a.v) = <<":", "=">>
        e  == self(<<"expr", a.s>>)
        acc1 == [slots |-> Append(acc.slots,
                                  BlockVariable(name, mutable, Len(acc.slots))),
                 statements |-> Append(acc.statements, LocalVariable(name, e.v)),
                 defined_symbols |->
                     acc.defined_symbols \cup {name}
                     \cup (IF mutable THEN {name \o <<":">>} ELSE {})]
        t  == statement_lines_tail(e.s, h.prev_indent_line)
        \* the state at the break out of the loop
        b  == IF h.stop THEN h.s
              ELSE IF self(<<"peek", s1, "re_keyword">>) THEN s1
              ELSE m.s
    IN  IF \/ h.stop
           \/ self(<<"peek", s1, "re_keyword">>)
           \/ ~m.v.ok
           \/ Failed(c)
           \/ name \in acc.defined_symbols
           \/ a.failed
           \/ e.failed
        THEN IF h.failed THEN Ret(h.s, None)
             ELSE IF h.stop \/ self(<<"peek", s1, "re_keyword">>) \/ ~m.v.ok
             THEN block_methods(b, acc, [methods |-> <<>>, defined_methods |-> {}])
             ELSE IF Failed(c) THEN Ret(c, None)
             ELSE IF name \in acc.defined_symbols
             THEN Ret(error(c, parse_state, "Variable is already defined"), None)
             ELSE IF a.failed THEN Ret(a.s, None)
             ELSE Ret(e.s, None)
        ELSE block_slots(t.s, t.prev_indent_line, ListColumn(h, list_column), acc1)

\* Parser.block
block(s) ==
    returned("block", s,
             block_slots(push_indent(s), -1, -1,
                         [slots |-> <<>>, statements |-> <<>>, defined_symbols |-> {}]))

\* Parser.toplevel from the return of block()
toplevel_end(b) ==
    IF b.failed THEN b
    ELSE IF b.s.pos < Len(stream)
    THEN Ret(error(b.s, b.s, "Expected declaration or end of file"), None)
    ELSE b

\* Parser.toplevel
toplevel(s) == toplevel_end(block(s))

\* Parser.statements from pop_indent(): s is the state it left
statements_end(s, statements) ==
    IF Failed(s) THEN Ret(s, None)
    ELSE IF statements = <<>> \/ statements[Len(statements)].type = "LocalVariable"
    THEN Ret(error(s, s, "Expected statement or expression"), None)
    ELSE IF Len(statements) = 1 THEN Ret(s, statements[1])
    ELSE Ret(s, Sequence(statements))

\* Parser.statements, the loop over statement_lines and what follows it
statements_loop(s, prev_indent_line, list_column, acc) ==
    LET h == statement_lines_head(s, prev_indent_line, list_column)
        r == self(<<"statement", h.s>>)
        t == statement_lines_tail(r.s, h.prev_indent_line)
    IN  IF h.stop \/ r.failed
        THEN IF h.failed THEN Ret(h.s, None)
             ELSE IF h.stop THEN statements_end(pop_indent(h.s), acc)
             ELSE Ret(r.s, None)
        ELSE statements_loop(t.s, t.prev_indent_line, ListColumn(h, list_column),
                             Append(acc, r.v))

\* Parser.statements
statements(s) ==
    returned("statements", s, statements_loop(push_indent(s), -1, -1, <<>>))

\* Parser.array from pop_indent(): s is the state it left
array_end(s, elems) ==
    IF Failed(s) THEN Ret(s, None)
    ELSE IF Len(elems) > MAX_ARRAY_SIZE
    THEN Ret(error(s, s, "Array size too big."), None)
    ELSE Ret(s, Array(elems))

\* Parser.array, the loop over statement_lines and what follows it
array_loop(s, prev_indent_line, list_column, acc) ==
    LET h == statement_lines_head(s, prev_indent_line, list_column)
        r == self(<<"expr", h.s>>)
        t == statement_lines_tail(r.s, h.prev_indent_line)
    IN  IF h.stop \/ r.failed
        THEN IF h.failed THEN Ret(h.s, None)
             ELSE IF h.stop THEN array_end(pop_indent(h.s), acc)
             ELSE Ret(r.s, None)
        ELSE array_loop(t.s, t.prev_indent_line, ListColumn(h, list_column),
                        Append(acc, r.v))

\* Parser.array
array(s) == returned("array", s, array_loop(push_indent(s), -1, -1, <<>>))

\* Parser.atom from the return of statements(), block() or array(): the
\* closing token is expected and the value r.v returned
atom_enclosed(r, pattern, message) ==
    IF r.failed THEN r
    ELSE LET x == expect_token(r.s, pattern, message)
         IN  Ret(x.s, IF x.failed THEN None ELSE r.v)

\* Parser.atom
atom(s) ==
    LET p1 == expr_token(s, "(")
        p2 == expr_token(p1.s, "{")
        p3 == expr_token(p2.s, "[")
        parse_state == copy_state(p3.s)
        m4 == expr_token(p3.s, "re_name")
        name == Group(m4.v)
        m5 == expr_token(m4.s, "re_number")
        g  == re_number_groups(m5.v.start)
        nb == number(g.whole, g.decimal, g.exponent)
        m6 == expr_token(m5.s, "re_string")
    IN  IF p1.v.ok THEN atom_enclosed(statements(p1.s), ")", "Expected ')'")
        ELSE IF p2.v.ok THEN atom_enclosed(block(p2.s), "}", "Expected '}'")
        ELSE IF p3.v.ok THEN atom_enclosed(array(p3.s), "]", "Expected ']'")
        ELSE IF m4.v.ok
        THEN IF name \in reserved_names
             THEN Ret(Log(m4.s, [type |-> "BuiltIn", name |-> name]), BuiltInNode(name))
             ELSE Ret(Log(m4.s, [type |-> "Send", symbol |-> name, nargs |-> 0,
                                 receiver |-> FALSE]),
                      Send(None, name, <<>>, parse_state))
        ELSE IF m5.v.ok
        THEN IF ~nb.ok
             THEN Ret(Raise(m5.s, "ValueError", "invalid literal for int()", m5.s), None)
             ELSE Ret(Log(m5.s, [type |-> "Number", significand |-> nb.significand,
                                 exponent |-> nb.exponent]),
                      Number(nb.significand, nb.exponent, parse_state))
        ELSE IF m6.v.ok
        THEN Ret(m6.s, String(Slice(m6.v.start + 1, m6.v.end - 1)))
        ELSE Ret(error(m6.s, m6.s, "Expected expression"), None)

\* Parser.unaryexpr, the loop over the unary messages
unaryexpr_loop(s, receiver) ==
    LET s1 == self(<<"scan", s>>)
        parse_state == copy_state(s1)
        m == expr_token(s1, "re_name")
        name == Group(m.v)
    IN  IF self(<<"peek", s1, "re_keyword">>) THEN Ret(s1, receiver)
        ELSE IF ~m.v.ok THEN Ret(m.s, receiver)
        ELSE IF name[1] = "~"
        THEN Ret(error(m.s, parse_state,
                       "Private message sent to an explicit receiver"), None)
        ELSE unaryexpr_loop(Log(m.s, [type |-> "Send", symbol |-> name,
                                      nargs |-> 0, receiver |-> TRUE]),
                            Send(receiver, name, <<>>, None))

\* Parser.unaryexpr from the return of atom()
unaryexpr_messages(a) == IF a.failed THEN a ELSE unaryexpr_loop(a.s, a.v)

\* Parser.unaryexpr
unaryexpr(s) == unaryexpr_messages(atom(s))

\* Parser.expr from the end of the loop over the keywords; receiver is the
\* local expr
expr_end(s, receiver, symbol, args, parse_state) ==
    LET c == check_num_params(s, Len(args), parse_state)
    IN  IF args = <<>> THEN Ret(s, receiver)
        ELSE IF Failed(c) THEN Ret(c, None)
        ELSE Ret(Log(c, [type |-> "Send", symbol |-> symbol,
                         nargs |-> Len(args), receiver |-> Truthy(receiver)]),
                 Send(receiver, symbol, args, parse_state))

\* expr_commas without symbol += ','
expr_commas_symbol_unchanged(s, symbol, args) ==
    LET m == expr_token(s, ",")
        a == self(<<"unaryexpr", m.s>>)
    IN  IF ~m.v.ok \/ a.failed
        THEN IF ~m.v.ok THEN Ret(m.s, [symbol |-> symbol, args |-> args])
             ELSE Ret(a.s, None)
        ELSE expr_commas(a.s, symbol, Append(args, a.v))

\* Parser.expr, the loop over ',' arguments of one keyword
expr_commas(s, symbol, args) ==
    LET m == expr_token(s, ",")
        a == self(<<"unaryexpr", m.s>>)
    IN  IF ~m.v.ok \/ a.failed
        THEN IF ~m.v.ok THEN Ret(m.s, [symbol |-> symbol, args |-> args])
             ELSE Ret(a.s, None)
        ELSE expr_commas(a.s, symbol \o <<",">>, Append(args, a.v))

\* expr_keywords without the check of the receiver of a private keyword
expr_keywords_receiver_unchecked(s, receiver, symbol, args, kw_parse_state, parse_state) ==
    LET m == expr_token(s, "re_keyword")
        part == Group(m.v)
        a == self(<<"unaryexpr", m.s>>)
        c == expr_commas(a.s, symbol \o part, Append(args, a.v))
    IN  IF \/ ~m.v.ok
           \/ part[1] = "~" /\ symbol # <<>>
           \/ a.failed
           \/ c.failed
        THEN IF ~m.v.ok THEN expr_end(m.s, receiver, symbol, args, parse_state)
             ELSE IF part[1] = "~" /\ symbol # <<>>
             THEN Ret(error(m.s, kw_parse_state, "Expected keyword"), None)
             ELSE IF a.failed THEN Ret(a.s, None)
             ELSE Ret(c.s, None)
        ELSE expr_keywords(c.s, receiver, c.v.symbol, c.v.args, copy_state(c.s),
                           parse_state)

\* Parser.expr, the loop over the keywords and what follows it; receiver is
\* the local expr
expr_keywords(s, receiver, symbol, args, kw_parse_state, parse_state) ==
    LET m == expr_token(s, "re_keyword")
        part == Group(m.v)
        a == self(<<"unaryexpr", m.s>>)
        c == expr_commas(a.s, symbol \o part, Append(args, a.v))
    IN  IF \/ ~m.v.ok
           \/ part[1] = "~" /\ (symbol # <<>> \/ Truthy(receiver))
           \/ a.failed
           \/ c.failed
        THEN IF ~m.v.ok THEN expr_end(m.s, receiver, symbol, args, parse_state)
             ELSE IF part[1] = "~" /\ symbol # <<>>
             THEN Ret(error(m.s, kw_parse_state, "Expected keyword"), None)
             ELSE IF part[1] = "~" /\ Truthy(receiver)
             THEN Ret(error(m.s, kw_parse_state,
                            "Private message sent to an explicit receiver"), None)
             ELSE IF a.failed THEN Ret(a.s, None)
             ELSE Ret(c.s, None)
        ELSE expr_keywords(c.s, receiver, c.v.symbol, c.v.args, copy_state(c.s),
                           parse_state)

\* Parser.expr from the assignment of the receiver, the local expr: u is
\* the state and the value unaryexpr() returned, or None
expr_sends(u, parse_state) ==
    IF u.failed THEN u
    ELSE expr_keywords(u.s, u.v, <<>>, <<>>, copy_state(u.s), parse_state)

\* Parser.expr from the scan(): s is the state it left
expr_receiver(s) ==
    IF self(<<"peek", s, "re_keyword">>) THEN Ret(s, None) ELSE unaryexpr(s)

\* Parser.expr
expr(s) == expr_sends(expr_receiver(self(<<"scan", s>>)), copy_state(s))

\* Parser.statement from the assignment of the right hand side r
statement_local(r, name) ==
    IF r.failed THEN r
    ELSE Ret(Log(r.s, [type |-> "LocalVariable", name |-> name]),
             LocalVariable(name, r.v))

\* Parser.statement from the token(re_assign): e is the state and the value
\* the first expr() returned, m what token() returned
statement_assigned(e, m, maybe_assign, parse_state) ==
    LET c == check_name(m.s, e.v.symbol, parse_state)
    IN  IF ~m.v.ok THEN Ret(m.s, e.v)
        ELSE IF Group(m.v) = <<":", "=">>
        THEN Ret(error(m.s, m.s, "Mutable variables are only allowed in blocks"), None)
        ELSE IF e.v.type # "Send" \/ Truthy(e.v.receiver) \/ ~maybe_assign
        THEN Ret(error(m.s, parse_state, "Left hand side of assignment must be a name"),
                 None)
        ELSE IF e.v.symbol[1] = "~"
        THEN Ret(error(m.s, parse_state, "Local variables cannot be private"), None)
        ELSE IF Failed(c) THEN Ret(c, None)
        ELSE statement_local(expr(c), e.v.symbol)

\* Parser.statement from the return of the first expr(), e
statement_assign(e, maybe_assign, parse_state) ==
    IF e.failed THEN e
    ELSE statement_assigned(e, token(e.s, "re_assign"), maybe_assign, parse_state)

\* Parser.statement
statement(s) == statement_assign(expr(s), self(<<"peek", s, "re_name">>), copy_state(s))

\* the dispatch of self.method(args) to the method
self(call) ==
    CASE call[1] = "match" -> match(call[2], call[3])
      [] call[1] = "peek" -> peek(call[2], call[3])
      [] call[1] = "scan" -> scan(call[2])
      [] call[1] = "signature" -> signature(call[2])
      [] call[1] = "toplevel" -> toplevel(call[2])
      [] call[1] = "statement" -> statement(call[2])
      [] call[1] = "statements" -> statements(call[2])
      [] call[1] = "expr" -> expr(call[2])
      [] call[1] = "unaryexpr" -> unaryexpr(call[2])

----------------------------------------------------------------------------
(* The program: parse_file constructs a Parser on the text and calls         *)
(* toplevel()                                                               *)

\* the sequences over S of length 0..n and 1..n
SeqsUpTo(S, n) == UNION {[1..k -> S] : k \in 0..n}

NonEmptySeqsUpTo(S, n) == UNION {[1..k -> S] : k \in 1..n}

RECURSIVE Flatten(_)
Flatten(ss) == IF ss = <<>> THEN <<>> ELSE Head(ss) \o Flatten(Tail(ss))

Spaces(n) == [i \in 1..n |-> " "]

\* "x = " and a number literal
NumberInputs ==
    { [kind |-> "number", sign |-> sg, whole |-> w, frac |-> f, exp |-> e,
       text |-> <<"x", " ", "=", " ">> \o sg \o w
                \o (IF f = <<>> THEN <<>> ELSE <<".">> \o f)
                \o (IF e = <<>> THEN <<>> ELSE <<"e">> \o e)] :
      sg \in {<<>>, <<"-">>, <<"+">>},
      w \in NonEmptySeqsUpTo({"0", "1"}, MaxWhole),
      f \in SeqsUpTo({"0", "5"}, MaxFrac),
      e \in {<<>>, <<"2">>, <<"-", "1">>} }

\* one keyword part of a send: [~]k: a[, a]...
SendPart(part) ==
    (IF part.private THEN <<"~">> ELSE <<>>) \o <<"k", ":", " ", "a">>
    \o Flatten([i \in 1..part.commas |-> <<",", " ", "a">>]) \o <<" ">>

SendParts == [private : BOOLEAN, commas : 0..1]

\* "x = " and a send: an optional receiver r, an optional unary message and
\* keyword parts
SendInputs ==
    { [kind |-> "send", recv |-> rc, unary |-> un, parts |-> pp,
       text |-> <<"x", " ", "=", " ">> \o rc \o un
                \o Flatten([i \in 1..Len(pp) |-> SendPart(pp[i])])] :
      rc \in {<<>>, <<"r", " ">>},
      un \in {<<>>, <<"u", " ">>, <<"~", "u", " ">>},
      pp \in SeqsUpTo(SendParts, MaxParts) }

\* n arguments after one keyword (commas) or after n keywords, in a send or
\* in a method signature
ArityText(shape, style, n) ==
    LET args == IF style = "commas"
                THEN <<"k", ":", " ", "a">>
                     \o Flatten([i \in 1..(n - 1) |-> <<",", " ", "a">>])
                ELSE <<"k", ":", " ", "a">>
                     \o Flatten([i \in 1..(n - 1) |-> <<" ", "k", ":", " ", "a">>])
    IN  IF shape = "send" THEN <<"x", " ", "=", " ">> \o args
        ELSE <<"|">> \o args \o <<"|", " ", "1">>

ArityInputs ==
    { [kind |-> "arity", shape |-> sh, style |-> sy, n |-> n,
       text |-> ArityText(sh, sy, n)] :
      sh \in {"send", "signature"}, sy \in {"commas", "keywords"}, n \in 1..MaxArgs }

\* one keyword part of a signature: [~]k: name[, name]...
SigPart(part) ==
    (IF part.private THEN <<"~">> ELSE <<>>) \o <<"k", ":", " ">> \o part.argname
    \o Flatten([i \in 1..part.commas |-> <<",", " ">> \o part.argname]) \o <<" ">>

SigParts == [private : BOOLEAN, commas : 0..1, argname : {<<"a">>, self_name}]

\* a method with a keyword signature, or with the unary name when parts is
\* empty
SignatureInputs ==
    { [kind |-> "signature", parts |-> pp, name |-> nm,
       text |-> <<"|">>
                \o (IF pp = <<>> THEN nm
                    ELSE Flatten([i \in 1..Len(pp) |-> SigPart(pp[i])]))
                \o <<"|", " ", "1">>] :
      pp \in SeqsUpTo(SigParts, MaxParts),
      nm \in {<<"m">>, self_name, <<"~", "p">>} }

\* the i-th statement of an indentation test: a name or a number
IndentStatement(content, i) ==
    IF content = "name" THEN <<"a">> ELSE <<"1">>

\* what precedes the i-th statement: a new line and the indentation of the
\* list, except for the statement shift (0: none), which is moved one
\* column to the left or right, or put on the line of the statement before
\* it with or without ';'
IndentLead(i, col, shift, mode) ==
    IF i # shift THEN <<"\n">> \o Spaces(col)
    ELSE CASE mode = "left"  -> <<"\n">> \o Spaces(col - 1)
           [] mode = "right" -> <<"\n">> \o Spaces(col + 1)
           [] mode = "same"  -> <<" ">>
           [] mode = "semicolon" -> <<";", " ">>

IndentShapes ==
    { d \in [list : {"method", "parentheses"}, content : {"name", "number"},
             n : 1..MaxStmts, col : 1..MaxIndent, shift : 0..MaxStmts,
             mode : {"left", "right", "same", "semicolon"}] :
        /\ d.shift # 1
        /\ d.shift <= d.n
        /\ d.shift = 0 => d.mode = "left" }

\* a statement list of n statements, as a method body or in parentheses
IndentInputs ==
    { [kind |-> "indent", list |-> d.list, content |-> d.content, n |-> d.n,
       col |-> d.col, shift |-> d.shift, mode |-> d.mode,
       text |-> (IF d.list = "method" THEN <<"|", "m", "|">>
                 ELSE <<"x", " ", "=", " ", "(">>)
                \o Flatten([i \in 1..d.n |-> IndentLead(i, d.col, d.shift, d.mode)
                                             \o IndentStatement(d.content, i)])
                \o (IF d.list = "method" THEN <<>> ELSE <<"\n", ")">>)] :
      d \in IndentShapes }

\* a slot definition and a method definition on a line of their own
SlotText(slot) ==
    slot.name \o (IF slot.mutable THEN <<" ", ":", "=", " ">> ELSE <<" ", "=", " ">>)
    \o <<"1", "\n">>

MethodText(symbol) ==
    <<"|">> \o symbol
    \o (IF symbol[Len(symbol)] = ":" THEN <<" ", "a">> ELSE <<>>)
    \o <<"|", " ", "2", "\n">>

BlockSlots == [name : {<<"x">>, <<"y">>}, mutable : BOOLEAN]

BlockSymbols == {<<"x">>, <<"x", ":">>, <<"m">>}

\* a block of slots and methods, at top level or in braces
BlockInputs ==
    { [kind |-> "block", nested |-> ne, slots |-> sl, methods |-> me,
       text |-> (IF ne THEN <<"z", " ", "=", " ", "{", "\n">> ELSE <<>>)
                \o Flatten([i \in 1..Len(sl) |-> SlotText(sl[i])])
                \o Flatten([i \in 1..Len(me) |-> MethodText(me[i])])
                \o (IF ne THEN <<"}">> ELSE <<>>)] :
      ne \in BOOLEAN,
      sl \in SeqsUpTo(BlockSlots, MaxSlots),
      me \in SeqsUpTo(BlockSymbols, MaxMethods) }

\* a name at a binder position or in expression position
ReservedText(position, name) ==
    CASE position = "slot"   -> name \o <<" ", "=", " ", "1">>
      [] position = "method" -> <<"|">> \o name \o <<"|", " ", "1">>
      [] position = "argument" -> <<"|", "k", ":", " ">> \o name \o <<"|", " ", "1">>
      [] position = "local"  -> <<"|", "m", "|", " ">> \o name
                                \o <<" ", "=", " ", "1", ";", " ", "2">>
      [] position = "expression" -> <<"x", " ", "=", " ">> \o name

ReservedInputs ==
    { [kind |-> "reserved", position |-> po, name |-> nm,
       text |-> ReservedText(po, nm)] :
      po \in {"slot", "method", "argument", "local", "expression"},
      nm \in reserved_names \cup {<<"a">>} }

\* the left hand sides of an assignment in a statement list; bare marks the
\* single names that are neither private nor reserved
LeftHandSides ==
    { [lhs |-> <<"a">>, bare |-> TRUE],
      [lhs |-> <<"a", "-", "b">>, bare |-> TRUE],
      [lhs |-> <<"r", " ", "a">>, bare |-> FALSE],
      [lhs |-> <<"r", " ", "k", ":", " ", "1">>, bare |-> FALSE],
      [lhs |-> <<"k", ":", " ", "x">>, bare |-> FALSE],
      [lhs |-> <<"k", ":", " ", "1", ",", " ", "2">>, bare |-> FALSE],
      [lhs |-> <<"~", "a">>, bare |-> FALSE],
      [lhs |-> <<"~", "k", ":", " ", "1">>, bare |-> FALSE],
      [lhs |-> <<"s", "e", "l", "f">>, bare |-> FALSE],
      [lhs |-> <<"5">>, bare |-> FALSE],
      [lhs |-> <<"(", "a", ")">>, bare |-> FALSE] }

AssignInputs ==
    { [kind |-> "assign", lhs |-> l.lhs, bare |-> l.bare, op |-> op,
       text |-> <<"|", "m", "|", " ">> \o l.lhs \o <<" ">> \o op
                \o <<" ", "3", ";", " ", "2">>] :
      l \in LeftHandSides, op \in {<<"=">>, <<":", "=">>} }

\* programs written by hand: comments, tabs and line ends, strings, arrays,
\* parentheses, nested blocks, local variables and malformed texts
Texts ==
    {
        <<"|", "m", "|", " ", "(", "1", ")", ";", " ", "[", "2", "]", ";", " ", "{", "a", " ", "=", " ", "1", "}", ";", " ", "3">>,
        <<"m", "a", "i", "n", " ", "=", " ", "'", "H", "e", "l", "l", "o", "'", " ", "p", "r", "i", "n", "t">>,
        <<"x", " ", "=", " ", "1", " ", "#", " ", "c", "\n", "y", " ", "=", " ", "2", " ", "-", "-", " ", "d", " ", "\n">>,
        <<"x", " ", "=", " ", "1", "\r", "\n", "y", " ", "=", " ", "2", "\r", " ", "z", " ", "=", " ", "3">>,
        <<"\t", "x", " ", "=", " ", "f", ":", " ", "2", "\n", "\t", " ", " ", "g", ":", " ", "3", "\n", "\t", "y", " ", "=", " ", "4">>,
        <<"x", " ", "=", " ", "[", "1", ";", " ", "2", "\n", " ", "3", "]">>,
        <<"x", " ", "=", " ", "[", "1", ";", " ", "2", ";", " ", "3", ";", " ", "4", ";", " ", "5", "]">>,
        <<"x", " ", "=", " ", "(", "a", ";", " ", "b", ")", " ", "c", ":", " ", "(", "d", " ", "e", ")">>,
        <<"x", " ", "=", " ", "{", " ", "y", " ", "=", " ", "1", "\n", " ", "|", "m", "|", " ", "y", " ", "}">>,
        <<"x", " ", "=", " ", "{", "}">>,
        <<"|", "m", "|", " ", "a", " ", "=", " ", "1", ";", " ", "a">>,
        <<"|", "m", "|", " ", "a", " ", ":", "=", " ", "1", ";", " ", "a">>,
        <<"|", "m", "|", " ", "r", " ", "a", " ", "=", " ", "1", ";", " ", "2">>,
        <<"|", "m", "|", " ", "~", "a", " ", "=", " ", "1", ";", " ", "2">>,
        <<"|", "m", "|", " ", "k", ":", " ", "x", " ", "=", " ", "3", ";", " ", "2">>,
        <<"|", "m", "|", " ", "a", " ", "=", " ", "1">>,
        <<"x", " ", "=", " ", "'", "a", "\\", "'", "b", "\\", "'">>,
        <<"x", " ", "=", " ", "a", "-", "b", " ", "c", "-">>,
        <<"x", " ", "=", "\n", "k", ":", " ", "1">>,
        <<"x", " ", "=", " ", "k", ":", " ", "1", " ", "~", "j", ":", " ", "2">>,
        <<"x", " ", "=", " ", "r", " ", "k", ":", " ", "a", " ", "~", "b">>,
        <<"|", "m", "|", "\n", " ", "a", "\n", " ", " ", "b", " ", "1">>,
        <<"x", " ", "=", " ", "1", " ", "2">>,
        <<"x", " ", "=", " ", ")">>,
        <<"x", " ", "=", " ", "(", "1">>,
        <<"5">>,
        <<"x", " ", "=", " ", "{", " ", "y", " ", "=", " ", "1", " ", "}", " ", "}">>,
        <<"|", "m", "|", " ", "1", "\n", "|", "m", "|", " ", "2">>,
        <<"x", " ", "=", " ", "1", ".", "e", "5">>,
        <<"x", " ", "=", " ", "-", "-", " ", "c", "\n", " ", " ", "1">>,
        <<"|", "k", ":", " ", "|", " ", "1">>,
        <<"|", "k", ":", " ", "j", ":", " ", "|", " ", "1">>,
        <<"|", "m", "|", " ", "[", "a", "\n", " ", "b", ";", " ", "c", "]", " ", "d">>,
        <<>>,
        <<" ", " ", "\n", " ">>,
        <<"x", " ", "=", " ", "{", " ", "|", "m", "|", " ", "(", "a", "\n", " ", "b", ")", " ", "}", " ", "c">>,
        <<"x", " ", "=", " ", "r", "\n", " ", " ", "u", "\n", " ", "k", ":", " ", "1">>,
        <<"k", ":", " ", "1">>,
        <<"~", "x", " ", ":", "=", " ", "1", "\n", "|", "~", "x", ":", " ", "a", "|", " ", "2">>
    }

TextInputs == { [kind |-> "text", text |-> x] : x \in Texts }

Inputs ==
    NumberInputs \cup SendInputs \cup ArityInputs \cup SignatureInputs
    \cup IndentInputs \cup BlockInputs \cup ReservedInputs \cup TextInputs
    \cup AssignInputs

Init ==
    /\ inp \in Inputs
    /\ stream = inp.text
    /\ ps = InitState
    /\ result = None
    /\ pc = "start"
    /\ ast = None
    /\ program = None
    /\ idalloc = None
    /\ out = <<>>
    /\ ppc = "idle"
    /\ builder = None
    /\ asm = <<>>
    /\ cpu = None
    /\ bpc = "idle"

\* compiler.parse_file: Parser(source, filename).toplevel()
Toplevel ==
    /\ pc = "start"
    /\ \E r \in {self(<<"toplevel", ps>>)} :
           /\ ps' = r.s
           /\ result' = r.v
    /\ pc' = "done"
    /\ UNCHANGED <<inp, stream>>
    /\ UNCHANGED program_vars
    /\ UNCHANGED builder_vars

Next == Toplevel

Spec == Init /\ [][Next]_vars

----------------------------------------------------------------------------
(* Properties *)

Done == pc = "done"

Raised(message) == ps.err.kind = "Error" /\ ps.err.message = message

NoException == ps.err.kind = "none"

\* the logged nodes of one type
LoggedNodes(type) == { ps.nodes[i] : i \in {j \in 1..Len(ps.nodes) : ps.nodes[j].type = type} }

Count(text, c) == Cardinality({i \in 1..Len(text) : text[i] = c})

\* the literal of a number input is sign whole [. frac] [e exp]; its exact
\* value times 10^ScaleExp, an integer as ScaleExp is the greatest number of
\* fraction digits plus one for the least exponent tried, e-1
ScaleExp == MaxFrac + 1

LiteralScaled(d) ==
    LET e == IF d.exp = <<>> THEN 0 ELSE int(d.exp).value
        magnitude == (DigitsValue(d.whole) * Pow10(Len(d.frac)) + DigitsValue(d.frac))
                     * Pow10(e - Len(d.frac) + ScaleExp)
    IN  IF d.sign = <<"-">> THEN 0 - magnitude ELSE magnitude

NodeScaled(n) == n.significand * Pow10(n.exponent + ScaleExp)

\* C1: the Number node of every number literal has
\* significand * 10^exponent equal to the exact decimal value of the literal.
C1_NumberValueExact ==
    (Done /\ inp.kind = "number") =>
        \A n \in LoggedNodes("Number") : NodeScaled(n) = LiteralScaled(inp)

\* C2: every integer literal (optional sign, no fraction, no exponent), zero
\* and signed zero included, parses to a Number without an exception, and
\* significand * 10^exponent is the integer written.
C2_IntegerRoundTrip ==
    (Done /\ inp.kind = "number" /\ inp.frac = <<>> /\ inp.exp = <<>>) =>
        /\ NoException
        /\ \E n \in LoggedNodes("Number") :
              /\ n.exponent >= 0
              /\ n.significand * Pow10(n.exponent)
                    = (IF inp.sign = <<"-">> THEN 0 - DigitsValue(inp.whole)
                       ELSE DigitsValue(inp.whole))

\* C3: a statement list whose statements all begin at the same column
\* parses, and with one statement other than the first shifted one column to
\* the left parsing raises an error reported at the column of the shifted
\* statement.
C3_ShiftedStatementRejected ==
    (Done /\ inp.kind = "indent") =>
        /\ inp.shift = 0 => NoException
        /\ (inp.shift # 0 /\ inp.mode = "left") =>
              /\ ps.err.kind = "Error"
              /\ ps.err.column = inp.col - 1

\* C4: statement_lines starts a statement that is not the first of its list
\* only after ';' or at a token on a later line whose column is the indent
\* level of the list (the column of the list's first statement).
C4_NewStatementAtListColumn ==
    \A i \in 1..Len(ps.starts) :
        LET st == ps.starts[i]
        IN  st.list_column >= 0 =>
                \/ st.prev_indent_line = -1
                \/ st.line > st.prev_indent_line /\ st.column = st.list_column

\* C5: expr_token matches its pattern exactly when, at the position scan()
\* reached (past spaces and comments), the pattern fits, the stream is not
\* exhausted and the column is greater than indent_level or the line is
\* indent_line; a match moves the position to the end of the token and no
\* match leaves it where scan() left it.
C5_ExprTokenRule ==
    \A i \in 1..Len(ps.calls) :
        LET call == ps.calls[i]
            at == call.at
        IN  /\ CharAt(at.pos) \notin SpaceChars
            /\ re_comment(at.pos).end < 0
            /\ call.ok <=> /\ call.fits
                           /\ at.pos < Len(stream)
                           /\ \/ at.pos - at.line_pos > at.indent_level
                              \/ at.line_number = at.indent_line
            /\ call.ok => call.pos_after = MatchEnd(call.pattern, at.pos)
            /\ ~call.ok => call.pos_after = at.pos

\* a token that fits was refused for its indentation, and a token on a line
\* after indent_line was taken for its column
C5_Witness ==
    /\ \E i \in 1..Len(ps.calls) : ps.calls[i].fits /\ ~ps.calls[i].ok
    /\ \E i \in 1..Len(ps.calls) :
          /\ ps.calls[i].ok
          /\ ps.calls[i].at.line_number # ps.calls[i].at.indent_line

\* the number of arguments of a logged Send or signature
NumArgs(n) == IF n.type = "Send" THEN n.nargs ELSE Len(n.argnames)

\* C6: every signature returned by Parser.signature and every Send has as
\* many arguments as its symbol has ':' and ',' characters; a unary one has
\* no argument and neither character.
C6_SymbolArity ==
    \A n \in LoggedNodes("Send") \cup LoggedNodes("Signature") :
        NumArgs(n) = Count(n.symbol, ":") + Count(n.symbol, ",")

\* a send and a signature with keywords and commas were produced
C6_Witness ==
    /\ Done
    /\ \E n \in LoggedNodes("Send") :
          Count(n.symbol, ":") >= 2 /\ Count(n.symbol, ",") >= 2
    /\ \E n \in LoggedNodes("Send") : n.nargs = 0

C6_WitnessSignature ==
    /\ Done
    /\ \E n \in LoggedNodes("Signature") :
          Count(n.symbol, ":") >= 2 /\ Count(n.symbol, ",") >= 1

\* C7: a signature or keyword send with at most 15 parameters passes the
\* parameter check, one with 16 or more raises the error, and no signature
\* or Send with more than 15 arguments is produced.
C7_ParameterLimit ==
    /\ \A n \in LoggedNodes("Send") \cup LoggedNodes("Signature") : NumArgs(n) <= 15
    /\ (Done /\ inp.kind = "arity") =>
          /\ inp.n <= 15 =>
                /\ NoException
                /\ \E n \in LoggedNodes(IF inp.shape = "send" THEN "Send"
                                        ELSE "Signature") : NumArgs(n) = inp.n
          /\ inp.n >= 16 => Raised("Seriously? Too many parameters")

\* a send of 16 arguments was refused
C7_Witness ==
    /\ Done /\ inp.kind = "arity" /\ inp.n = 16 /\ inp.shape = "send"
    /\ Raised("Seriously? Too many parameters")

\* C8: no Send with a private symbol ('~...') has a receiver; '~name' and
\* '~name:' after a receiver raise 'Private message sent to an explicit
\* receiver', and a '~' keyword part that is not the first part of the
\* symbol raises 'Expected keyword', in a send and in a signature.
C8_PrivateSend ==
    /\ \A n \in LoggedNodes("Send") : n.symbol[1] = "~" => ~n.receiver
    /\ (Done /\ inp.kind = "send") =>
          LET unary_private == inp.recv # <<>> /\ inp.unary = <<"~", "u", " ">>
              has_receiver == inp.recv # <<>> \/ inp.unary # <<>>
              first_private == inp.parts # <<>> /\ inp.parts[1].private
              later_private == \E i \in 2..Len(inp.parts) : inp.parts[i].private
          IN  /\ unary_private =>
                    Raised("Private message sent to an explicit receiver")
              /\ (~unary_private /\ has_receiver /\ first_private) =>
                    Raised("Private message sent to an explicit receiver")
              /\ (~unary_private /\ ~(has_receiver /\ first_private)
                    /\ later_private) => Raised("Expected keyword")
              /\ (~unary_private /\ ~(has_receiver /\ first_private)
                    /\ ~later_private /\ (has_receiver \/ inp.parts # <<>>)) =>
                    NoException
    /\ (Done /\ inp.kind = "signature"
          /\ \E i \in 2..Len(inp.parts) : inp.parts[i].private) =>
          Raised("Expected keyword")

\* '~k:' after the receiver r was refused
C8_Witness ==
    /\ Done /\ inp.kind = "send" /\ inp.recv # <<>> /\ inp.unary = <<>>
    /\ inp.parts # <<>> /\ inp.parts[1].private
    /\ Raised("Private message sent to an explicit receiver")

\* the symbols a block defines: slot names, setters of mutable slots, and
\* method symbols
DefinedSymbols(slots, methods) ==
    [i \in 1..Len(slots) |-> slots[i].name]
    \o Flatten([i \in 1..Len(slots) |->
                   IF slots[i].mutable THEN <<slots[i].name \o <<":">>>> ELSE <<>>])
    \o methods

Distinct(names) == Cardinality({names[i] : i \in 1..Len(names)}) = Len(names)

\* C9: every Block returned defines no symbol twice across slot names,
\* setters and methods; a block text with a repeated slot name, a repeated
\* method symbol, or a method named like a slot or the setter of a mutable
\* slot raises an error, and one without parses.
C9_BlockSymbolsDistinct ==
    /\ \A b \in LoggedNodes("Block") : Distinct(DefinedSymbols(b.slots, b.methods))
    /\ (Done /\ inp.kind = "block") =>
          IF Distinct(DefinedSymbols(inp.slots, inp.methods))
          THEN NoException
          ELSE \/ Raised("Variable is already defined")
               \/ Raised("Method is already defined")
               \/ Raised("Method conflicts with variable definition")

\* a block with a mutable slot and two methods was returned
C9_Witness ==
    /\ Done /\ inp.kind = "block" /\ NoException
    /\ \E b \in LoggedNodes("Block") :
          /\ Len(b.methods) = 2
          /\ \E i \in 1..Len(b.slots) : b.slots[i].mutable

\* C10: a reserved name is refused with '... is a reserved name' as a slot
\* name, a unary method name, a method argument name and a local variable
\* name, and in expression position gives its built-in node, not a Send.
C10_ReservedNames ==
    (Done /\ inp.kind = "reserved" /\ inp.name \in reserved_names) =>
        IF inp.position = "expression"
        THEN /\ NoException
             /\ \E n \in LoggedNodes("BuiltIn") : n.name = inp.name
             /\ \A n \in LoggedNodes("Send") : n.symbol # inp.name
        ELSE Raised("is a reserved name")

----------------------------------------------------------------------------
(* The tag allocator and the program builder (ome/compiler.py, ome/idalloc.py) *)
(*                                                                         *)
(* Program is built from the resolved AST: its blocks in the order of      *)
(* block_list, its sends in the order of send_list.  A dict is a function  *)
(* on its keys, a Python set a set, a list a sequence.  Every method of    *)
(* Program.__init__ and of emit_program_text is one action; an exception   *)
(* ends the run with ppc = "failed".                                       *)

MaxBlocks == 4          \* blocks of a block list with every mix of kinds
MaxConstantBlocks == 3  \* constant blocks added to a long block list

\* idalloc.py: the names of the built-in tags and constants; Program passes
\* the same lists of ome/constants.py to its IdAllocator
opaque_names == <<"Constant", "Small-Integer", "Small-Decimal">>

pointer_names ==
    <<"String", "String-Buffer", "Byte-Array", "Byte-Array-Mutable",
      "Byte-Array-Buffer", "Array", "Array-Mutable", "Array-Buffer">>

constant_names ==
    <<"False", "True", "Empty", "BuiltIn", "Stack-Overflow", "Not-Understood",
      "Type-Error", "Index-Error", "Overflow", "Divide-By-Zero">>

\* ome/constants.py: the tag and constant spaces, scaled down from
\* NUM_TAG_BITS = 20 so that a block list can exhaust them; constant tags
\* lie above every tag ID
MAX_TAG == 31

MIN_CONSTANT_TAG == 64

MAX_CONSTANT_TAG == 12

MAX_CONSTANT == 12

Tag_Constant == 0

Constant_BuiltIn == 3

constant_to_tag(constant_id) == constant_id + MIN_CONSTANT_TAG

\* idalloc.constant_id_to_tag
constant_id_to_tag(constant_id) == constant_id + MIN_CONSTANT_TAG

\* the tag of a block before allocate_ids, and the constant ID of a block
\* that has none
NoTag == -1

\* d.update(pairs) of a dict d, a function on its keys: a later pair
\* replaces an earlier one ({} is <<>>, and d[k] = v gives (k :> v) @@ d)
RECURSIVE dict(_, _, _)
dict(pairs, i, d) ==
    IF i > Len(pairs) THEN d
    ELSE dict(pairs, i + 1, (pairs[i][1] :> pairs[i][2]) @@ d)

\* an exception raised in Program or in the allocator
NotRaised == [kind |-> "none", message |-> ""]

OmeError(message) == [kind |-> "OmeError", message |-> message]

\* IdAllocator.__init__ of compiler.py; the fields allocate_ids sets are empty
IdAllocator(opaque_tag_names_, pointer_tag_names_, constant_names_) ==
    [opaque_tag_names |-> opaque_tag_names_,
     pointer_tag_names |-> pointer_tag_names_,
     constant_names |-> constant_names_,
     tags |-> <<>>, tag_list |-> <<>>, pointer_tag_id |-> NoTag,
     constants |-> <<>>, constant_list |-> <<>>,
     last_tag_id |-> NoTag, last_constant_id |-> NoTag]

RECURSIVE allocate_tag_names(_, _, _, _)
RECURSIVE allocate_block_tags(_, _, _)
RECURSIVE allocate_constant_names(_, _, _, _)
RECURSIVE allocate_constant_blocks(_, _, _)

\* for name in names: tags[name] = tag_id; tag_list.append(...); tag_id += 1
allocate_tag_names(ids, names, i, tag_id) ==
    IF i > Len(names) THEN [ids |-> ids, tag_id |-> tag_id]
    ELSE allocate_tag_names(
             [ids EXCEPT !.tags = (names[i] :> tag_id) @@ @,
                         !.tag_list = Append(@, <<names[i], tag_id>>)],
             names, i + 1, tag_id + 1)

\* for block in block_list: if not block.is_constant: block.tag = tag_id ...
allocate_block_tags(block_list, i, tag_id) ==
    IF i > Len(block_list) THEN [block_list |-> block_list, tag_id |-> tag_id]
    ELSE IF ~block_list[i].is_constant
    THEN allocate_block_tags([block_list EXCEPT ![i].tag = tag_id], i + 1, tag_id + 1)
    ELSE allocate_block_tags(block_list, i + 1, tag_id)

\* for name in self.constant_names: ...
allocate_constant_names(ids, names, i, constant_id) ==
    IF i > Len(names) THEN [ids |-> ids, constant_id |-> constant_id]
    ELSE allocate_constant_names(
             [ids EXCEPT !.constants = (names[i] :> constant_id) @@ @,
                         !.constant_list = Append(@, <<names[i], constant_id>>),
                         !.tags = (names[i] :> constant_to_tag(constant_id)) @@ @],
             names, i + 1, constant_id + 1)

\* for block in block_list: if block.is_constant: ...
allocate_constant_blocks(block_list, i, constant_id) ==
    IF i > Len(block_list)
    THEN [block_list |-> block_list, constant_id |-> constant_id]
    ELSE IF block_list[i].is_constant
    THEN allocate_constant_blocks(
             [block_list EXCEPT ![i].tag = constant_to_tag(constant_id),
                                ![i].tag_constant = constant_id],
             i + 1, constant_id + 1)
    ELSE allocate_constant_blocks(block_list, i + 1, constant_id)

\* the assertions that end allocate_ids
allocate_ids_asserts(ids) ==
    IF "Constant" \notin DOMAIN ids.tags \/ "BuiltIn" \notin DOMAIN ids.constants
    THEN [kind |-> "KeyError", message |-> ""]
    ELSE IF Tag_Constant # ids.tags["Constant"]
            \/ Constant_BuiltIn # ids.constants["BuiltIn"]
    THEN [kind |-> "AssertionError", message |-> ""]
    ELSE NotRaised

\* the check of the tag space without the check of the constant space
allocate_ids_constants_unchecked(ids, block_list) ==
    LET o == allocate_tag_names(ids, ids.opaque_tag_names, 1, 0)
        p == allocate_tag_names([o.ids EXCEPT !.pointer_tag_id = o.tag_id],
                                ids.pointer_tag_names, 1, o.tag_id)
        b == allocate_block_tags(block_list, 1, p.tag_id)
        c == allocate_constant_names(p.ids, ids.constant_names, 1, 0)
        k == allocate_constant_blocks(b.block_list, 1, c.constant_id)
        done == [c.ids EXCEPT !.last_tag_id = b.tag_id,
                              !.last_constant_id = k.constant_id]
    IN  IF b.tag_id > MAX_TAG
        THEN [ids |-> p.ids, block_list |-> b.block_list,
              err |-> OmeError("exhausted all tag IDs")]
        ELSE [ids |-> done, block_list |-> k.block_list,
              err |-> allocate_ids_asserts(done)]

\* non-constant blocks numbered from the pointer tag threshold
allocate_ids_blocks_from_pointer_tag(ids, block_list) ==
    LET o == allocate_tag_names(ids, ids.opaque_tag_names, 1, 0)
        p == allocate_tag_names([o.ids EXCEPT !.pointer_tag_id = o.tag_id],
                                ids.pointer_tag_names, 1, o.tag_id)
        b == allocate_block_tags(block_list, 1, o.tag_id)
        c == allocate_constant_names(p.ids, ids.constant_names, 1, 0)
        k == allocate_constant_blocks(b.block_list, 1, c.constant_id)
        done == [c.ids EXCEPT !.last_tag_id = b.tag_id,
                              !.last_constant_id = k.constant_id]
    IN  IF b.tag_id > MAX_TAG
        THEN [ids |-> p.ids, block_list |-> b.block_list,
              err |-> OmeError("exhausted all tag IDs")]
        ELSE IF k.constant_id > MAX_CONSTANT_TAG
        THEN [ids |-> c.ids, block_list |-> k.block_list,
              err |-> OmeError("exhausted all constant tag IDs")]
        ELSE [ids |-> done, block_list |-> k.block_list,
              err |-> allocate_ids_asserts(done)]

\* constant blocks numbered from constant ID 0, like the built-in constants
allocate_ids_constant_blocks_from_zero(ids, block_list) ==
    LET o == allocate_tag_names(ids, ids.opaque_tag_names, 1, 0)
        p == allocate_tag_names([o.ids EXCEPT !.pointer_tag_id = o.tag_id],
                                ids.pointer_tag_names, 1, o.tag_id)
        b == allocate_block_tags(block_list, 1, p.tag_id)
        c == allocate_constant_names(p.ids, ids.constant_names, 1, 0)
        k == allocate_constant_blocks(b.block_list, 1, 0)
        done == [c.ids EXCEPT !.last_tag_id = b.tag_id,
                              !.last_constant_id = k.constant_id]
    IN  IF b.tag_id > MAX_TAG
        THEN [ids |-> p.ids, block_list |-> b.block_list,
              err |-> OmeError("exhausted all tag IDs")]
        ELSE IF k.constant_id > MAX_CONSTANT_TAG
        THEN [ids |-> c.ids, block_list |-> k.block_list,
              err |-> OmeError("exhausted all constant tag IDs")]
        ELSE [ids |-> done, block_list |-> k.block_list,
              err |-> allocate_ids_asserts(done)]

\* IdAllocator.allocate_ids of compiler.py: the allocator and the block list
\* it leaves, and the exception it raises
allocate_ids(ids, block_list) ==
    LET o == allocate_tag_names(ids, ids.opaque_tag_names, 1, 0)
        p == allocate_tag_names([o.ids EXCEPT !.pointer_tag_id = o.tag_id],
                                ids.pointer_tag_names, 1, o.tag_id)
        b == allocate_block_tags(block_list, 1, p.tag_id)
        c == allocate_constant_names(p.ids, ids.constant_names, 1, 0)
        k == allocate_constant_blocks(b.block_list, 1, c.constant_id)
        done == [c.ids EXCEPT !.last_tag_id = b.tag_id,
                              !.last_constant_id = k.constant_id]
    IN  IF b.tag_id > MAX_TAG
        THEN [ids |-> p.ids, block_list |-> b.block_list,
              err |-> OmeError("exhausted all tag IDs")]
        ELSE IF k.constant_id > MAX_CONSTANT_TAG
        THEN [ids |-> c.ids, block_list |-> k.block_list,
              err |-> OmeError("exhausted all constant tag IDs")]
        ELSE [ids |-> done, block_list |-> k.block_list,
              err |-> allocate_ids_asserts(done)]

\* idalloc.IdAllocator.__init__
idalloc_IdAllocator ==
    LET tag_list == [i \in 1..Len(opaque_names) |-> <<opaque_names[i], i - 1>>]
        constant_list == [i \in 1..Len(constant_names) |-> <<constant_names[i], i - 1>>]
    IN  [opaque_names |-> <<>>, pointer_names |-> pointer_names,
         constant_names |-> <<>>,
         tag_list |-> tag_list, constant_list |-> constant_list,
         tags |-> dict([i \in 1..Len(constant_list) |->
                           <<constant_list[i][1], constant_id_to_tag(constant_list[i][2])>>],
                       1, dict(tag_list, 1, <<>>)),
         constants |-> dict(constant_list, 1, <<>>),
         pointer_tag_id |-> NoTag]

RECURSIVE idalloc_names(_, _, _)
RECURSIVE idalloc_block_tags(_, _, _)
RECURSIVE idalloc_constant_blocks(_, _, _, _)

\* for name in names: list.append((name, len(list)))
idalloc_names(list, names, i) ==
    IF i > Len(names) THEN list
    ELSE idalloc_names(Append(list, <<names[i], Len(list)>>), names, i + 1)

\* for block in block_list: if not block.is_constant: ...
idalloc_block_tags(tag_list, block_list, i) ==
    IF i > Len(block_list) THEN [tag_list |-> tag_list, block_list |-> block_list]
    ELSE IF ~block_list[i].is_constant
    THEN idalloc_block_tags(
             Append(tag_list, <<"Block-" \o ToString(Len(tag_list)), Len(tag_list)>>),
             [block_list EXCEPT ![i].tag_id = Len(tag_list)], i + 1)
    ELSE idalloc_block_tags(tag_list, block_list, i + 1)

\* for block in block_list: if block.is_constant: ...
idalloc_constant_blocks(tag_list, constant_list, block_list, i) ==
    IF i > Len(block_list)
    THEN [tag_list |-> tag_list, constant_list |-> constant_list,
          block_list |-> block_list]
    ELSE IF block_list[i].is_constant
    THEN LET constant_id == Len(constant_list)
             tag_id == constant_id_to_tag(constant_id)
         IN  idalloc_constant_blocks(
                 Append(tag_list, <<"Block-" \o ToString(tag_id), tag_id>>),
                 Append(constant_list,
                        <<"Constant-" \o ToString(constant_id), constant_id>>),
                 [block_list EXCEPT ![i].constant_id = constant_id,
                                    ![i].tag_id = tag_id],
                 i + 1)
    ELSE idalloc_constant_blocks(tag_list, constant_list, block_list, i + 1)

\* idalloc.IdAllocator.allocate_ids
idalloc_allocate_ids(ids, block_list) ==
    LET o == idalloc_names(ids.tag_list, ids.opaque_names, 1)
        p == idalloc_names(o, ids.pointer_names, 1)
        b == idalloc_block_tags(p, block_list, 1)
        c == idalloc_names(ids.constant_list, ids.constant_names, 1)
        k == idalloc_constant_blocks(b.tag_list, c, b.block_list, 1)
        tags == dict([i \in 1..Len(k.constant_list) |->
                         <<k.constant_list[i][1],
                           constant_id_to_tag(k.constant_list[i][2])>>],
                     1, dict(k.tag_list, 1, <<>>))
        constants == dict(k.constant_list, 1, <<>>)
    IN  [ids |-> [ids EXCEPT !.tag_list = k.tag_list,
                             !.pointer_tag_id = Len(o),
                             !.constant_list = k.constant_list,
                             !.tags = tags, !.constants = constants],
         block_list |-> k.block_list,
         err |-> IF Cardinality(DOMAIN tags) > MAX_TAG
                 THEN OmeError("exhausted all tag IDs")
                 ELSE IF Cardinality(DOMAIN constants) > MAX_CONSTANT
                 THEN OmeError("exhausted all constant tag IDs")
                 ELSE NotRaised]

----------------------------------------------------------------------------
(* Program *)

\* a Block of the resolved AST with the method symbols it defines
NewBlock(is_constant, methods) ==
    [is_constant |-> is_constant, methods |-> methods,
     tag |-> NoTag, tag_constant |-> NoTag]

\* block.symbols
symbols(b) == {b.methods[i] : i \in 1..Len(b.methods)}

\* the Program object before __init__ has run
NewProgram ==
    [block_list |-> <<>>, send_list |-> <<>>, code_table |-> <<>>,
     traceback_table |-> <<>>,
     ids |-> IdAllocator(<<>>, <<>>, <<>>),
     sent_messages |-> {}, called_methods |-> {},
     err |-> NotRaised]

\* Program.__init__ up to the check of the top-level block: the top-level
\* expression ast.expr is the first block of the AST, or a Sequence that
\* ends with it; Program has no attribute toplevel_block
Program_init(p, a) ==
    LET q == [p EXCEPT !.block_list = a.blocks, !.send_list = a.sends]
    IN  IF a.shape = "Sequence"
        THEN [q EXCEPT !.err = [kind |-> "AttributeError",
                                message |-> "toplevel_block"]]
        ELSE IF <<"m", "a", "i", "n">> \notin symbols(a.blocks[1])
        THEN [q EXCEPT !.err = OmeError("no main method defined")]
        ELSE q

----------------------------------------------------------------------------
(* Reachability of methods and emission *)

\* Target_x86_64.builtin_methods, in the order of the source: each built-in
\* method with the name of the tag it is defined for, its symbol and the
\* messages its code sends; Tag_Boolean has no name among the tag names of
\* idalloc.py, where the booleans are the constants False and True: its
\* methods are listed under True
builtin_methods ==
    LET BuiltInMethod(tag_name, symbol, sent_messages) ==
            [tag_name |-> tag_name, symbol |-> symbol,
             sent_messages |-> sent_messages]
    IN  <<
        BuiltInMethod("BuiltIn", <<"p", "r", "i", "n", "t", ":">>, <<<<"s", "t", "r", "i", "n", "g">>>>),
        BuiltInMethod("BuiltIn", <<"c", "a", "t", "c", "h", ":">>, <<<<"d", "o">>>>),
        BuiltInMethod("BuiltIn", <<"t", "r", "y", ":">>, <<<<"d", "o">>, <<"c", "a", "t", "c", "h", ":">>>>),
        BuiltInMethod("BuiltIn", <<"e", "r", "r", "o", "r", ":">>, <<>>),
        BuiltInMethod("BuiltIn", <<"f", "o", "r", ":">>, <<<<"d", "o">>, <<"w", "h", "i", "l", "e">>>>),
        BuiltInMethod("String", <<"s", "t", "r", "i", "n", "g">>, <<>>),
        BuiltInMethod("True", <<"s", "t", "r", "i", "n", "g">>, <<>>),
        BuiltInMethod("Not-Understood", <<"s", "t", "r", "i", "n", "g">>, <<>>),
        BuiltInMethod("Type-Error", <<"s", "t", "r", "i", "n", "g">>, <<>>),
        BuiltInMethod("Index-Error", <<"s", "t", "r", "i", "n", "g">>, <<>>),
        BuiltInMethod("Overflow", <<"s", "t", "r", "i", "n", "g">>, <<>>),
        BuiltInMethod("Divide-By-Zero", <<"s", "t", "r", "i", "n", "g">>, <<>>),
        BuiltInMethod("Small-Integer", <<"s", "t", "r", "i", "n", "g">>, <<>>),
        BuiltInMethod("Small-Integer", <<"p", "l", "u", "s", ":">>, <<>>),
        BuiltInMethod("Small-Integer", <<"m", "i", "n", "u", "s", ":">>, <<>>),
        BuiltInMethod("Small-Integer", <<"t", "i", "m", "e", "s", ":">>, <<>>),
        BuiltInMethod("Small-Integer", <<"p", "o", "w", "e", "r", ":">>, <<>>),
        BuiltInMethod("Small-Integer", <<"d", "i", "v", ":">>, <<>>),
        BuiltInMethod("Small-Integer", <<"m", "o", "d", ":">>, <<>>),
        BuiltInMethod("Small-Integer", <<"a", "b", "s">>, <<>>),
        BuiltInMethod("Small-Integer", <<"m", "i", "n", ":">>, <<>>),
        BuiltInMethod("Small-Integer", <<"m", "a", "x", ":">>, <<>>),
        BuiltInMethod("Small-Integer", <<"n", "e", "g", "a", "t", "e">>, <<>>),
        BuiltInMethod("Small-Integer", <<"l", "e", "s", "s", "-", "t", "h", "a", "n", ":">>, <<>>),
        BuiltInMethod("Small-Integer",
                          <<"l", "e", "s", "s", "-", "o", "r", "-", "e", "q", "u", "a", "l", ":">>, <<>>),
        BuiltInMethod("Small-Integer", <<"e", "q", "u", "a", "l", "s", ":">>, <<>>),
        BuiltInMethod("True", <<"n", "o", "t">>, <<>>),
        BuiltInMethod("True", <<"a", "n", "d", ":">>, <<>>),
        BuiltInMethod("True", <<"o", "r", ":">>, <<>>),
        BuiltInMethod("True", <<"e", "q", "u", "a", "l", "s", ":">>, <<>>),
        BuiltInMethod("True", <<"t", "h", "e", "n", ":">>, <<<<"d", "o">>>>),
        BuiltInMethod("True", <<"i", "f", ":">>, <<<<"t", "h", "e", "n">>, <<"e", "l", "s", "e">>>>),
        BuiltInMethod("Array", <<"s", "i", "z", "e">>, <<>>),
        BuiltInMethod("Array", <<"a", "t", ":">>, <<>>),
        BuiltInMethod("Array", <<"e", "a", "c", "h", ":">>, <<<<"i", "t", "e", "m", ":">>>>)
    
        >>

\* the characters of symbols in the order of their code points, the order
\* in which Python compares strings
CodePoints ==
    <<",", "-", "0", "1", "2", "3", "4", "5", "6", "7", "8", "9", ":",
      "A", "B", "C", "D", "E", "F", "G", "H", "I", "J", "K", "L", "M",
      "N", "O", "P", "Q", "R", "S", "T", "U", "V", "W", "X", "Y", "Z", "_",
      "a", "b", "c", "d", "e", "f", "g", "h", "i", "j", "k", "l", "m",
      "n", "o", "p", "q", "r", "s", "t", "u", "v", "w", "x", "y", "z", "~">>

\* a symbol as the sequence of the ranks of its characters
ord(symbol) ==
    [i \in 1..Len(symbol) |->
        CHOOSE n \in 1..Len(CodePoints) : CodePoints[n] = symbol[i]]

\* a < b of two sequences of integers, as Python compares strings, and
\* tuples of a string and an integer with the string ended by 0
LexLess(a, b) ==
    \E i \in 1..(Len(a) + 1) :
        /\ i <= Len(b)
        /\ \A j \in 1..(i - 1) : a[j] = b[j]
        /\ i <= Len(a) => a[i] < b[i]

RECURSIVE sorted_descending(_)
\* the items in descending order of their keys
sorted_descending(items) ==
    IF items = {} THEN <<>>
    ELSE LET last == CHOOSE x \in items :
                         \A y \in items : y = x \/ LexLess(y[1], x[1])
         IN  <<last[2]>> \o sorted_descending(items \ {last})

RECURSIVE sorted(_)
\* sorted(values) of a set of values, given as the pairs <<key, value>>
\* with distinct keys: the values in ascending order of their keys
sorted(items) ==
    IF items = {} THEN <<>>
    ELSE LET first == CHOOSE x \in items :
                          \A y \in items : y = x \/ LexLess(x[1], y[1])
         IN  <<first[2]>> \o sorted(items \ {first})

\* sorted(symbols) of a set of symbols
sorted_symbols(set) == sorted({<<ord(s), s>> : s \in set})

\* the tag of send.receiver_block: a block of block_list, or the built-in
\* block, whose tag is the constant tag of BuiltIn
receiver_block_tag(p, send) ==
    IF send.receiver_block.kind = "builtin"
    THEN constant_to_tag(Constant_BuiltIn)
    ELSE p.block_list[send.receiver_block.index].tag

\* the pairs of every send with a receiver block, whatever its symbol
called_methods_unfiltered(p, sent_messages) ==
    { <<receiver_block_tag(p, p.send_list[i]), p.send_list[i].symbol>> :
      i \in {j \in 1..Len(p.send_list) :
                p.send_list[j].receiver_block.kind # "none"} }

\* set((send.receiver_block.tag, send.symbol) for send in self.send_list
\*     if send.receiver_block and send.symbol not in self.sent_messages)
called_methods(p, sent_messages) ==
    { <<receiver_block_tag(p, p.send_list[i]), p.send_list[i].symbol>> :
      i \in {j \in 1..Len(p.send_list) :
                /\ p.send_list[j].receiver_block.kind # "none"
                /\ p.send_list[j].symbol \notin sent_messages} }

RECURSIVE find_used_builtin_sent_only(_, _, _, _, _)
\* the loop without the test of the statically called methods
find_used_builtin_sent_only(methods, i, tags, sent_messages, called) ==
    IF i > Len(methods) THEN sent_messages
    ELSE IF /\ methods[i].sent_messages # <<>>
            /\ methods[i].symbol \in sent_messages
    THEN find_used_builtin_sent_only(
             methods, i + 1, tags,
             sent_messages \cup {methods[i].sent_messages[k] :
                                    k \in 1..Len(methods[i].sent_messages)},
             called)
    ELSE find_used_builtin_sent_only(methods, i + 1, tags, sent_messages, called)

RECURSIVE find_used_builtin(_, _, _, _, _)
\* for method in self.target.builtin_methods: ... of find_used_methods
find_used_builtin(methods, i, tags, sent_messages, called) ==
    IF i > Len(methods) THEN sent_messages
    ELSE IF /\ methods[i].sent_messages # <<>>
            /\ \/ methods[i].symbol \in sent_messages
               \/ <<tags[methods[i].tag_name], methods[i].symbol>> \in called
    THEN find_used_builtin(
             methods, i + 1, tags,
             sent_messages \cup {methods[i].sent_messages[k] :
                                    k \in 1..Len(methods[i].sent_messages)},
             called)
    ELSE find_used_builtin(methods, i + 1, tags, sent_messages, called)

\* Program.find_used_methods
find_used_methods(p, methods) ==
    LET dynamic == { p.send_list[i].symbol :
                     i \in {j \in 1..Len(p.send_list) :
                               /\ p.send_list[j].receiver
                               /\ p.send_list[j].receiver_block.kind = "none"} }
        initial == {<<"m", "a", "i", "n">>, <<"s", "t", "r", "i", "n", "g">>}
                   \cup dynamic
        sent_messages == find_used_builtin(methods, 1, p.ids.tags, initial,
                                           called_methods(p, initial))
    IN  [p EXCEPT !.sent_messages = sent_messages,
                  !.called_methods = called_methods(p, sent_messages)]

\* Program.should_include_method
should_include_method(p, symbol, tag) ==
    symbol \in p.sent_messages \/ <<tag, symbol>> \in p.called_methods

\* Program.build_code_table: the methods included, the built-in ones and
\* then those of the blocks, and the code table made of them; a method of a
\* block is its code, named by the index of the block
build_code_table(p, methods) ==
    LET builtin ==
            [i \in 1..Len(methods) |->
                IF should_include_method(p, methods[i].symbol,
                                         constant_to_tag(Constant_BuiltIn))
                THEN <<[symbol |-> methods[i].symbol,
                        tag |-> p.ids.tags[methods[i].tag_name],
                        builtin |-> TRUE, index |-> i]>>
                ELSE <<>>]
        user ==
            [b \in 1..Len(p.block_list) |->
                Flatten([m \in 1..Len(p.block_list[b].methods) |->
                    IF should_include_method(p, p.block_list[b].methods[m],
                                             p.block_list[b].tag)
                    THEN <<[symbol |-> p.block_list[b].methods[m],
                            tag |-> p.block_list[b].tag,
                            builtin |-> FALSE, index |-> b]>>
                    ELSE <<>>])]
        included == Flatten(builtin) \o Flatten(user)
        keys == sorted_symbols({included[i].symbol : i \in 1..Len(included)})
    IN  [p EXCEPT !.code_table =
            [k \in 1..Len(keys) |->
                [symbol |-> keys[k],
                 methods |-> SelectSeq(included, LAMBDA m : m.symbol = keys[k])]]]

RECURSIVE compile_traceback_info_by_position(_, _)
\* every send with a parse state gets an entry of its own, numbered by its
\* position in the send list
compile_traceback_info_by_position(p, i) ==
    IF i > Len(p.send_list) THEN p
    ELSE IF ~p.send_list[i].parse_state.set
    THEN compile_traceback_info_by_position(p, i + 1)
    ELSE
        LET send == p.send_list[i]
            state == send.parse_state
            key == <<state.stream_name, state.line_number, state.column>>
            tbinfo == [index |-> i - 1,
                       method_name |-> send.method,
                       stream_name |-> state.stream_name,
                       source_line |-> state.current_line,
                       line_number |-> state.line_number,
                       column |-> state.column,
                       underline |-> 1]
        IN  compile_traceback_info_by_position(
                [p EXCEPT !.traceback_table = (key :> tbinfo) @@ @,
                          !.send_list[i].traceback_info = tbinfo.index],
                i + 1)

RECURSIVE compile_traceback_info(_, _)
\* Program.compile_traceback_info, from the i-th send on; the table is the
\* dict of the entries by their keys
compile_traceback_info(p, i) ==
    IF i > Len(p.send_list) THEN p
    ELSE IF ~p.send_list[i].parse_state.set THEN compile_traceback_info(p, i + 1)
    ELSE
        LET send == p.send_list[i]
            state == send.parse_state
            key == <<state.stream_name, state.line_number, state.column>>
            whitespace == {" ", "\t", "\n", "\r"}
            text == state.current_line
            black == {k \in 1..Len(text) : text[k] \notin whitespace}
            line_unstripped ==
                IF black = {} THEN <<>>
                ELSE SubSeq(text, 1, CHOOSE k \in black : \A j \in black : j <= k)
            line ==
                IF black = {} THEN <<>>
                ELSE SubSeq(line_unstripped,
                            CHOOSE k \in black : \A j \in black : k <= j,
                            Len(line_unstripped))
            colons == {k \in 1..Len(send.symbol) : send.symbol[k] = ":"}
            find == IF colons = {} THEN -1
                    ELSE (CHOOSE k \in colons : \A j \in colons : k <= j) - 1
            underline == IF find + 1 < 1
                         THEN IF Len(send.symbol) > 1 THEN Len(send.symbol) ELSE 1
                         ELSE find + 1
            tbinfo ==
                IF key \in DOMAIN p.traceback_table THEN p.traceback_table[key]
                ELSE [index |-> Cardinality(DOMAIN p.traceback_table),
                      method_name |-> send.method,
                      stream_name |-> state.stream_name,
                      source_line |-> line,
                      line_number |-> state.line_number,
                      column |-> state.column - (Len(line_unstripped) - Len(line)),
                      underline |-> underline]
        IN  compile_traceback_info(
                [p EXCEPT !.traceback_table = (key :> tbinfo) @@ @,
                          !.send_list[i].traceback_info = tbinfo.index],
                i + 1)

\* one piece of the output: a definition of a constant, an entry of the
\* traceback table, a declaration, the code of a method, a dispatcher or a
\* warning on the diagnostic stream
Piece(kind, name, symbol, tags, n) ==
    [kind |-> kind, name |-> name, symbol |-> symbol, tags |-> tags, n |-> n]

\* Program.emit_constants: the integers of ome/constants.py whose names do
\* not start with Tag_ or Constant_ in the order of their names, the tags,
\* the pointer tag and the constants
emit_constants(p) ==
    LET ints == sorted({<<ord(c[1]), c>> : c \in
                   {<<<<"M", "A", "X", "_", "C", "O", "N", "S", "T", "A", "N", "T">>, MAX_CONSTANT>>,
                    <<<<"M", "A", "X", "_", "C", "O", "N", "S", "T", "A", "N", "T", "_", "T", "A", "G">>,
                      MAX_CONSTANT_TAG>>,
                    <<<<"M", "A", "X", "_", "T", "A", "G">>, MAX_TAG>>,
                    <<<<"M", "I", "N", "_", "C", "O", "N", "S", "T", "A", "N", "T", "_", "T", "A", "G">>,
                      MIN_CONSTANT_TAG>>}})
    IN  [i \in 1..Len(ints) |-> Piece("define", "", ints[i][1], <<>>, ints[i][2])]
        \o [i \in 1..Len(p.ids.tag_list) |->
            Piece("define_tag", p.ids.tag_list[i][1], <<>>, <<>>,
                  p.ids.tag_list[i][2])]
        \o <<Piece("define_pointer_tag", "Pointer", <<>>, <<>>,
                   p.ids.pointer_tag_id)>>
        \o [i \in 1..Len(p.ids.constant_list) |->
            Piece("define_constant", p.ids.constant_list[i][1], <<>>, <<>>,
                  p.ids.constant_list[i][2])]

\* Program.emit_data: the traceback entries in the order of their indexes
emit_data(p) ==
    LET entries == sorted({<<<<p.traceback_table[k].index>>, p.traceback_table[k]>> :
                           k \in DOMAIN p.traceback_table})
    IN  [i \in 1..Len(entries) |->
            Piece("traceback_entry", entries[i].stream_name,
                  entries[i].method_name, <<>>, entries[i].index)]

\* Program.emit_code_declarations
emit_code_declarations(p) ==
    LET table == p.code_table
        message_decls == p.sent_messages
                         \cup {table[i].symbol : i \in 1..Len(table)}
        method_decls ==
            UNION { { <<table[i].symbol, table[i].methods[j].tag>> :
                      j \in 1..Len(table[i].methods) } : i \in 1..Len(table) }
        methods == sorted({<<ord(d[1]) \o <<0, d[2]>>, d>> : d \in method_decls})
        messages == sorted_symbols(message_decls)
    IN  <<Piece("declaration", "OME_toplevel", <<>>, <<>>, 1)>>
        \o [i \in 1..Len(methods) |->
               Piece("method_declaration", "", methods[i][1], <<methods[i][2]>>,
                     Count(methods[i][1], ":"))]
        \o [i \in 1..Len(messages) |->
               Piece("message_declaration", "", messages[i], <<>>,
                     Count(messages[i], ":"))]
        \o [i \in 1..Len(messages) |->
               Piece("lookup_declaration", "", messages[i], <<>>,
                     Count(messages[i], ":"))]

\* the first loop of emit_code_definitions: the code of the methods of
\* each symbol of the code table, and its dispatchers if the symbol is sent
emit_method_definitions(p) ==
    Flatten([i \in 1..Len(p.code_table) |->
        LET symbol == p.code_table[i].symbol
            methods == p.code_table[i].methods
            tags == [j \in 1..Len(methods) |-> methods[j].tag]
        IN  [j \in 1..Len(methods) |->
                Piece("method_code", "", symbol, <<methods[j].tag>>, methods[j].index)]
            \o IF symbol \in p.sent_messages
               THEN <<Piece("dispatcher", "", symbol, tags, 0),
                      Piece("lookup_dispatcher", "", symbol, tags, 0)>>
               ELSE <<>>])

\* emit_code_definitions without its second loop
emit_code_definitions_without_empty_dispatchers(p) == emit_method_definitions(p)

\* Program.emit_code_definitions; a warning is a piece of its own
emit_code_definitions(p) ==
    LET dispatchers == {p.code_table[i].symbol :
                        i \in {j \in 1..Len(p.code_table) :
                                  p.code_table[j].symbol \in p.sent_messages}}
        optional_messages == {<<"r", "e", "t", "u", "r", "n">>}
        rest == sorted_symbols(p.sent_messages \ dispatchers)
    IN  emit_method_definitions(p)
        \o Flatten([i \in 1..Len(rest) |->
               (IF rest[i] \notin optional_messages
                THEN <<Piece("warning", "no methods defined for message",
                             rest[i], <<>>, 0)>>
                ELSE <<>>)
               \o <<Piece("dispatcher", "", rest[i], <<>>, 0),
                    Piece("lookup_dispatcher", "", rest[i], <<>>, 0)>>])

----------------------------------------------------------------------------
(* The programs under test *)

MaxSends == 2

MaxPermuted == 4

main == <<"m", "a", "i", "n">>

\* the block lists of n blocks in every mix of constant and other blocks
MixedBlockLists ==
    UNION { { [i \in 1..n |-> NewBlock(f[i], IF i = 1 THEN <<main>> ELSE <<>>)] :
              f \in [1..n -> BOOLEAN] } :
            n \in 1..MaxBlocks }

\* block lists around the end of the tag space: n other blocks after or
\* before c constant blocks
LongBlockLists ==
    LET P == Len(opaque_names)
        Q == Len(pointer_names)
    IN  { [i \in 1..(n + c) |->
              NewBlock(IF first THEN i <= c ELSE i > n,
                       IF i = 1 THEN <<main>> ELSE <<>>)] :
          n \in (MAX_TAG - P - Q - 1)..(MAX_TAG - P - Q + 1),
          c \in 0..MaxConstantBlocks, first \in BOOLEAN }

AllocationInputs ==
    { [kind |-> "allocation", shape |-> "Block", blocks |-> b, sends |-> <<>>,
       order |-> <<>>] :
      b \in MixedBlockLists \cup LongBlockLists }

\* both shapes of the top-level expression, with and without main
MainInputs ==
    { [kind |-> "main", shape |-> sh,
       blocks |-> <<NewBlock(c, m)>> \o rest,
       sends |-> <<>>, order |-> <<>>] :
      sh \in {"Block", "Sequence"}, c \in BOOLEAN,
      m \in {<<>>, <<main>>, <<<<"s", "t", "r", "i", "n", "g">>>>,
             <<<<"s", "t", "r", "i", "n", "g">>, main>>},
      rest \in {<<>>, <<NewBlock(FALSE, <<main>>)>>} }

\* a send of the AST after the resolution of its receiver: receiver tells
\* whether it has a receiver expression, block is the index of its receiver
\* block in the block list, 0 for the built-in block and NoTag for none;
\* it stands in the method main at the column col of a line of the file,
\* col = 0 for a send without a parse state
SendNode(receiver, b, symbol, col) ==
    [receiver |-> receiver,
     receiver_block |-> [kind |-> IF b = NoTag THEN "none"
                                  ELSE IF b = 0 THEN "builtin" ELSE "block",
                         index |-> b],
     symbol |-> symbol,
     parse_state |-> [set |-> col > 0, stream_name |-> "test.ome",
                      line_number |-> 1, column |-> col,
                      current_line |->
                          IF col > 0
                          THEN <<" ", " ">> \o symbol \o <<" ", "1", " ", "\n">>
                          ELSE <<>>],
     method |-> main,
     traceback_info |-> NoTag]

\* the sends tried: dynamic sends with and without methods, sends to the
\* built-in block and to a block of the program, and a read of a variable
SendChoices ==
    { SendNode(TRUE, NoTag, <<"t", "r", "y", ":">>, 3),
      SendNode(TRUE, NoTag, <<"f", "o", "o">>, 5),
      SendNode(TRUE, NoTag, <<"b", "a", "z">>, 7),
      SendNode(TRUE, NoTag, <<"r", "e", "t", "u", "r", "n">>, 0),
      SendNode(TRUE, NoTag, <<"i", "f", ":">>, 3),
      SendNode(FALSE, 0, <<"t", "r", "y", ":">>, 9),
      SendNode(FALSE, 0, <<"c", "a", "t", "c", "h", ":">>, 9),
      SendNode(FALSE, 0, <<"p", "l", "u", "s", ":">>, 11),
      SendNode(TRUE, 2, <<"f", "o", "o">>, 5),
      SendNode(TRUE, 2, <<"b", "a", "r">>, 13),
      SendNode(FALSE, NoTag, <<"x">>, 0) }

\* a block with main and foo, and a constant block with foo, bar and string
SendBlocks ==
    <<NewBlock(FALSE, <<main, <<"f", "o", "o">>>>),
      NewBlock(TRUE, <<<<"f", "o", "o">>, <<"b", "a", "r">>,
                       <<"s", "t", "r", "i", "n", "g">>>>)>>

\* programs of up to MaxSends sends, with the built-in methods in the
\* order of the source
ReachInputs ==
    { [kind |-> "reach", shape |-> "Block", blocks |-> SendBlocks, sends |-> s,
       order |-> <<>>] :
      s \in SeqsUpTo(SendChoices, MaxSends) }

\* one send, with the first MaxPermuted built-in methods in every order
OrderInputs ==
    { [kind |-> "order", shape |-> "Block", blocks |-> SendBlocks, sends |-> <<s>>,
       order |-> o] :
      s \in {SendNode(TRUE, NoTag, <<"t", "r", "y", ":">>, 3),
             SendNode(FALSE, 0, <<"t", "r", "y", ":">>, 9),
             SendNode(FALSE, 0, <<"c", "a", "t", "c", "h", ":">>, 9)},
      o \in {f \in [1..MaxPermuted -> 1..MaxPermuted] :
                \A i, j \in 1..MaxPermuted : i # j => f[i] # f[j]} }

\* longer send lists of sends that share positions of the source, or have
\* no parse state
TracebackInputs ==
    { [kind |-> "traceback", shape |-> "Block", blocks |-> SendBlocks, sends |-> s,
       order |-> <<>>] :
      s \in [1..(MaxSends + 1) ->
               { SendNode(TRUE, NoTag, <<"t", "r", "y", ":">>, 3),
                 SendNode(TRUE, NoTag, <<"i", "f", ":">>, 3),
                 SendNode(TRUE, NoTag, <<"f", "o", "o">>, 5),
                 SendNode(FALSE, NoTag, <<"x">>, 0) }] }

ProgramInputs ==
    AllocationInputs \cup MainInputs \cup ReachInputs \cup OrderInputs
        \cup TracebackInputs

\* self.target.builtin_methods, with its first entries in the order of the
\* program under test
target_builtin_methods ==
    [i \in 1..Len(builtin_methods) |->
        IF i <= Len(ast.order) THEN builtin_methods[ast.order[i]]
        ELSE builtin_methods[i]]

ProgramInit ==
    /\ inp = None
    /\ stream = <<>>
    /\ ps = InitState
    /\ result = None
    /\ pc = "idle"
    /\ ast \in ProgramInputs
    /\ program = NewProgram
    /\ idalloc = [ids |-> idalloc_IdAllocator, block_list |-> <<>>,
                  err |-> NotRaised,
                  pc |-> IF ast.kind = "allocation" THEN "allocate_ids"
                         ELSE "idle"]
    /\ out = <<>>
    /\ ppc = "Program"
    /\ builder = None
    /\ asm = <<>>
    /\ cpu = None
    /\ bpc = "idle"

\* Program.__init__, lines 86-103
ProgramConstruct ==
    /\ ppc = "Program"
    /\ program' = Program_init(program, ast)
    /\ ppc' = IF program'.err = NotRaised THEN "allocate_ids" ELSE "failed"
    /\ UNCHANGED <<ast, idalloc, out>>
    /\ UNCHANGED parser_vars
    /\ UNCHANGED builder_vars

\* self.ids = IdAllocator(...); self.ids.allocate_ids(self.block_list)
AllocateIds ==
    /\ ppc = "allocate_ids"
    /\ \E r \in {allocate_ids(IdAllocator(opaque_names, pointer_names,
                                          constant_names),
                              program.block_list)} :
           program' = [program EXCEPT !.ids = r.ids, !.block_list = r.block_list,
                                      !.err = r.err]
    /\ ppc' = IF program'.err = NotRaised THEN "compile_traceback_info"
              ELSE "failed"
    /\ UNCHANGED <<ast, idalloc, out>>
    /\ UNCHANGED parser_vars
    /\ UNCHANGED builder_vars

\* allocate_ids of an IdAllocator of idalloc.py on the blocks of the AST
IdallocAllocateIds ==
    /\ idalloc.pc = "allocate_ids"
    /\ \E r \in {idalloc_allocate_ids(
                     idalloc.ids,
                     [i \in 1..Len(ast.blocks) |->
                         [is_constant |-> ast.blocks[i].is_constant,
                          tag_id |-> NoTag, constant_id |-> NoTag]])} :
           idalloc' = [ids |-> r.ids, block_list |-> r.block_list, err |-> r.err,
                       pc |-> IF r.err = NotRaised THEN "done" ELSE "failed"]
    /\ UNCHANGED <<ast, program, out, ppc>>
    /\ UNCHANGED parser_vars
    /\ UNCHANGED builder_vars

\* self.compile_traceback_info()
CompileTracebackInfo ==
    /\ ppc = "compile_traceback_info"
    /\ program' = compile_traceback_info(program, 1)
    /\ ppc' = "find_used_methods"
    /\ UNCHANGED <<ast, idalloc, out>>
    /\ UNCHANGED parser_vars
    /\ UNCHANGED builder_vars

\* self.find_used_methods()
FindUsedMethods ==
    /\ ppc = "find_used_methods"
    /\ program' = find_used_methods(program, target_builtin_methods)
    /\ ppc' = "build_code_table"
    /\ UNCHANGED <<ast, idalloc, out>>
    /\ UNCHANGED parser_vars
    /\ UNCHANGED builder_vars

\* self.build_code_table(), the last step of Program.__init__
BuildCodeTable ==
    /\ ppc = "build_code_table"
    /\ program' = build_code_table(program, target_builtin_methods)
    /\ ppc' = "emit_program_text"
    /\ UNCHANGED <<ast, idalloc, out>>
    /\ UNCHANGED parser_vars
    /\ UNCHANGED builder_vars

\* Program.emit_program_text: its five steps write to out one after the other
EmitProgramText ==
    /\ ppc = "emit_program_text"
    /\ out' = out \o emit_constants(program)
                  \o emit_data(program)
                  \o emit_code_declarations(program)
                  \o emit_code_definitions(program)
                  \o <<Piece("toplevel_code", "OME_toplevel", <<>>, <<>>, 0)>>
    /\ ppc' = "done"
    /\ UNCHANGED <<ast, program, idalloc>>
    /\ UNCHANGED parser_vars
    /\ UNCHANGED builder_vars

ProgramNext ==
    \/ ProgramConstruct
    \/ AllocateIds
    \/ IdallocAllocateIds
    \/ CompileTracebackInfo
    \/ FindUsedMethods
    \/ BuildCodeTable
    \/ EmitProgramText

ProgramSpec == ProgramInit /\ [][ProgramNext]_vars

----------------------------------------------------------------------------
(* Properties of the program builder *)

ProgramRaised(message) == program.err = OmeError(message)

\* allocate_ids of compiler.py has assigned tags, and has returned normally
AllocateIdsRan == program.ids.pointer_tag_id # NoTag

Allocated == AllocateIdsRan /\ program.err = NotRaised

\* the same of the allocator of idalloc.py
IdallocRan == idalloc.pc \in {"done", "failed"}

IdallocAllocated == idalloc.pc = "done"

\* the number of blocks of one kind among the first n blocks of the AST
CountBlocks(is_constant, n) ==
    Cardinality({i \in 1..n : ast.blocks[i].is_constant = is_constant})

IdsOf(list) == {list[i][2] : i \in 1..Len(list)}

\* C11: Program construction raises 'no main method defined' exactly when
\* the top-level block does not define main, whether the top-level
\* expression is a Block or a Sequence ending in the Block; with main
\* defined construction goes on to the tag allocation, and without it no
\* block is given a tag.
C11_NoMainMethod ==
    (ast # None /\ ppc # "Program") =>
        IF main \in symbols(ast.blocks[1])
        THEN ppc = "allocate_ids" \/ AllocateIdsRan
        ELSE /\ ProgramRaised("no main method defined")
             /\ \A i \in 1..Len(program.block_list) :
                    program.block_list[i].tag = NoTag

\* the Block shape alone: the error exactly when main is missing
C11_BlockShape ==
    (ast # None /\ ppc # "Program" /\ ast.shape = "Block") =>
        (ProgramRaised("no main method defined")
            <=> main \notin symbols(ast.blocks[1]))

\* C12: after allocate_ids has returned normally every block has a tag,
\* the tags of distinct blocks differ from each other and from every opaque
\* and pointer tag, and the constant IDs of distinct constant blocks differ
\* from each other and from every built-in constant ID; for the allocator
\* of compiler.py and for the one of idalloc.py.
C12_TagsDistinct ==
    /\ (ast # None /\ Allocated) =>
          LET b == program.block_list
              builtin_tags == IdsOf(program.ids.tag_list)
              builtin_constants == IdsOf(program.ids.constant_list)
          IN  /\ \A i \in 1..Len(b) :
                    /\ b[i].tag # NoTag
                    /\ b[i].tag \notin builtin_tags
                    /\ b[i].is_constant =>
                          /\ b[i].tag_constant # NoTag
                          /\ b[i].tag_constant \notin builtin_constants
              /\ \A i, j \in 1..Len(b) :
                    i # j =>
                       /\ b[i].tag # b[j].tag
                       /\ (b[i].is_constant /\ b[j].is_constant) =>
                              b[i].tag_constant # b[j].tag_constant
    /\ (ast # None /\ IdallocAllocated) =>
          LET b == idalloc.block_list
              builtin_tags ==
                  IdsOf(SubSeq(idalloc.ids.tag_list, 1,
                               Len(opaque_names) + Len(pointer_names)))
              builtin_constants ==
                  IdsOf(SubSeq(idalloc.ids.constant_list, 1, Len(constant_names)))
          IN  /\ \A i \in 1..Len(b) :
                    /\ b[i].tag_id # NoTag
                    /\ b[i].tag_id \notin builtin_tags
                    /\ b[i].is_constant =>
                          /\ b[i].constant_id # NoTag
                          /\ b[i].constant_id \notin builtin_constants
              /\ \A i, j \in 1..Len(b) :
                    i # j =>
                       /\ b[i].tag_id # b[j].tag_id
                       /\ (b[i].is_constant /\ b[j].is_constant) =>
                              b[i].constant_id # b[j].constant_id

\* both allocators have returned normally on a list of two constant blocks
\* and two others
C12_Witness ==
    /\ ast # None /\ Allocated /\ IdallocAllocated
    /\ Len(ast.blocks) = 4
    /\ CountBlocks(TRUE, 4) = 2

\* C13: allocate_ids numbers the opaque tags 0..P-1 and the pointer tags
\* P..P+Q-1 in list order, sets pointer_tag_id to P, and numbers the blocks
\* that are not constant P+Q, P+Q+1, ... in block-list order; no constant
\* block has a tag of that range, and no other block a tag below
\* pointer_tag_id.
C13_TagOrder ==
    /\ (ast # None /\ AllocateIdsRan) =>
          LET P == Len(opaque_names)
              Q == Len(pointer_names)
              names == opaque_names \o pointer_names
              b == program.block_list
          IN  /\ program.ids.pointer_tag_id = P
              /\ SubSeq(program.ids.tag_list, 1, P + Q)
                    = [i \in 1..(P + Q) |-> <<names[i], i - 1>>]
              /\ \A i \in 1..Len(b) :
                    IF b[i].is_constant
                    THEN b[i].tag \notin (P + Q)..(P + Q + CountBlocks(FALSE, Len(b)) - 1)
                    ELSE /\ b[i].tag = P + Q + CountBlocks(FALSE, i) - 1
                         /\ b[i].tag >= program.ids.pointer_tag_id
    /\ (ast # None /\ IdallocRan) =>
          LET P == Len(opaque_names)
              Q == Len(pointer_names)
              names == opaque_names \o pointer_names
              b == idalloc.block_list
          IN  /\ idalloc.ids.pointer_tag_id = P
              /\ SubSeq(idalloc.ids.tag_list, 1, P + Q)
                    = [i \in 1..(P + Q) |-> <<names[i], i - 1>>]
              /\ \A i \in 1..Len(b) :
                    IF b[i].is_constant
                    THEN b[i].tag_id \notin (P + Q)..(P + Q + CountBlocks(FALSE, Len(b)) - 1)
                    ELSE /\ b[i].tag_id = P + Q + CountBlocks(FALSE, i) - 1
                         /\ b[i].tag_id >= idalloc.ids.pointer_tag_id

\* a constant block lies between two other blocks, which have consecutive tags
C13_Witness ==
    /\ ast # None /\ Allocated /\ IdallocAllocated
    /\ Len(ast.blocks) >= 3
    /\ ~ast.blocks[1].is_constant /\ ast.blocks[2].is_constant
    /\ ~ast.blocks[3].is_constant
    /\ program.block_list[3].tag = program.block_list[1].tag + 1

\* C14: the built-in constants have the constant IDs 0..k-1 in the order of
\* the list of their names whatever the block list is, and the constant
\* blocks k, k+1, ... in block-list order; the assertions on
\* constants['BuiltIn'] and tags['Constant'] hold after every allocation as
\* they hold after the allocation for the empty block list.
C14_ConstantOrder ==
    /\ (ast # None /\ Allocated) =>
          LET k == Len(constant_names)
              b == program.block_list
              empty == allocate_ids(IdAllocator(opaque_names, pointer_names,
                                                constant_names), <<>>)
          IN  /\ SubSeq(program.ids.constant_list, 1, k)
                    = [i \in 1..k |-> <<constant_names[i], i - 1>>]
              /\ \A i \in 1..k : program.ids.constants[constant_names[i]] = i - 1
              /\ \A i \in 1..Len(b) :
                    b[i].is_constant =>
                        b[i].tag_constant = k + CountBlocks(TRUE, i) - 1
              /\ program.ids.constants["BuiltIn"] = empty.ids.constants["BuiltIn"]
              /\ program.ids.tags["Constant"] = empty.ids.tags["Constant"]
              /\ empty.err = NotRaised =>
                    /\ Constant_BuiltIn = program.ids.constants["BuiltIn"]
                    /\ Tag_Constant = program.ids.tags["Constant"]
    /\ (ast # None /\ IdallocAllocated) =>
          LET k == Len(constant_names)
              b == idalloc.block_list
          IN  /\ SubSeq(idalloc.ids.constant_list, 1, k)
                    = [i \in 1..k |-> <<constant_names[i], i - 1>>]
              /\ \A i \in 1..k : idalloc.ids.constants[constant_names[i]] = i - 1
              /\ \A i \in 1..Len(b) :
                    b[i].is_constant =>
                        b[i].constant_id = k + CountBlocks(TRUE, i) - 1
              /\ Constant_BuiltIn = idalloc.ids.constants["BuiltIn"]
              /\ Tag_Constant = idalloc.ids.tags["Constant"]

\* two constant blocks with another block between them
C14_Witness ==
    /\ ast # None /\ Allocated /\ IdallocAllocated
    /\ Len(ast.blocks) >= 3
    /\ ast.blocks[1].is_constant /\ ~ast.blocks[2].is_constant
    /\ ast.blocks[3].is_constant
    /\ program.block_list[3].tag_constant = program.block_list[1].tag_constant + 1

TagCount ==
    Len(opaque_names) + Len(pointer_names)
    + CountBlocks(FALSE, Len(ast.blocks))

ConstantCount == Len(constant_names) + CountBlocks(TRUE, Len(ast.blocks))

\* when allocate_ids of compiler.py returns normally every ID of the tag
\* counter is below MAX_TAG and every constant ID below MAX_CONSTANT_TAG
AssignedIdsInRange ==
    Allocated =>
        /\ \A id \in IdsOf(program.ids.tag_list) : id < MAX_TAG
        /\ \A id \in IdsOf(program.ids.constant_list) : id < MAX_CONSTANT_TAG
        /\ \A i \in 1..Len(program.block_list) :
              IF program.block_list[i].is_constant
              THEN program.block_list[i].tag_constant < MAX_CONSTANT_TAG
              ELSE program.block_list[i].tag < MAX_TAG

\* C15 as stated: 'exhausted all tag IDs' exactly when the opaque tags, the
\* pointer tags and the blocks that are not constant are more than MAX_TAG;
\* 'exhausted all constant tag IDs' exactly when the built-in constants and
\* the constant blocks are more than MAX_CONSTANT_TAG; the IDs in range on
\* a normal return.
C15_ExhaustedExactly ==
    (ast # None /\ ast.kind = "allocation" /\ ppc \notin {"Program", "allocate_ids"}) =>
        /\ ProgramRaised("exhausted all tag IDs") <=> TagCount > MAX_TAG
        /\ ProgramRaised("exhausted all constant tag IDs")
              <=> ConstantCount > MAX_CONSTANT_TAG
        /\ AssignedIdsInRange

\* C15 amended: 'exhausted all constant tag IDs' exactly when the constants
\* are more than MAX_CONSTANT_TAG and the tags are not more than MAX_TAG:
\* the tag space is checked first, and its error is the one raised when
\* both spaces are exhausted.
C15_ExhaustedFirstError ==
    (ast # None /\ ast.kind = "allocation" /\ ppc \notin {"Program", "allocate_ids"}) =>
        /\ ProgramRaised("exhausted all tag IDs") <=> TagCount > MAX_TAG
        /\ ProgramRaised("exhausted all constant tag IDs")
              <=> (ConstantCount > MAX_CONSTANT_TAG /\ TagCount <= MAX_TAG)
        /\ AssignedIdsInRange

\* the constant space alone is exhausted, by one constant block
C15_Witness ==
    /\ ast # None /\ ast.kind = "allocation"
    /\ ProgramRaised("exhausted all constant tag IDs")
    /\ ConstantCount = MAX_CONSTANT_TAG + 1
    /\ TagCount = MAX_TAG


\* find_used_methods has run
Found == ppc \in {"build_code_table", "emit_program_text", "done"}

\* build_code_table has run too
Built == Found /\ ppc # "build_code_table"

\* the code table holds a method of the symbol under the tag
InCodeTable(symbol, tag, builtin) ==
    \E i \in 1..Len(program.code_table) :
        /\ program.code_table[i].symbol = symbol
        /\ \E j \in 1..Len(program.code_table[i].methods) :
               /\ program.code_table[i].methods[j].tag = tag
               /\ program.code_table[i].methods[j].builtin = builtin

\* C16: after build_code_table a method with tag t and symbol s is in the
\* code table if and only if s is in sent_messages or (t, s) is in
\* called_methods, t being the tag of the block of a user method and the
\* tag of the tag_name of a built-in method.
C16_IncludedIff ==
    Built =>
        /\ \A i \in 1..Len(builtin_methods) :
              LET s == builtin_methods[i].symbol
                  t == program.ids.tags[builtin_methods[i].tag_name]
              IN  InCodeTable(s, t, TRUE)
                      <=> (s \in program.sent_messages
                              \/ <<t, s>> \in program.called_methods)
        /\ \A b \in 1..Len(program.block_list) :
              \A m \in 1..Len(program.block_list[b].methods) :
                  LET s == program.block_list[b].methods[m]
                      t == program.block_list[b].tag
                  IN  InCodeTable(s, t, FALSE)
                          <=> (s \in program.sent_messages
                                  \/ <<t, s>> \in program.called_methods)

\* the methods of the blocks alone are included exactly as C16 says
C16_UserMethods ==
    Built =>
        \A b \in 1..Len(program.block_list) :
            \A m \in 1..Len(program.block_list[b].methods) :
                LET s == program.block_list[b].methods[m]
                    t == program.block_list[b].tag
                IN  InCodeTable(s, t, FALSE)
                        <=> (s \in program.sent_messages
                                \/ <<t, s>> \in program.called_methods)

\* C17: after find_used_methods, whatever the order of the list of
\* built-in methods, every built-in method with sent messages whose symbol
\* is in sent_messages, or which a send calls statically under its tag, has
\* all its sent messages in sent_messages.
C17_Closed ==
    Found =>
        \A i \in 1..Len(builtin_methods) :
            LET m == builtin_methods[i]
                static == called_methods_unfiltered(program, {})
            IN  (/\ m.sent_messages # <<>>
                 /\ \/ m.symbol \in program.sent_messages
                    \/ <<program.ids.tags[m.tag_name], m.symbol>> \in static)
                => \A k \in 1..Len(m.sent_messages) :
                       m.sent_messages[k] \in program.sent_messages

\* try: is called statically with catch: before it in the list, and the
\* messages of both are sent
C17_Witness ==
    /\ Found
    /\ ast.kind = "order"
    /\ \E i, j \in 1..Len(ast.order) :
          /\ i < j
          /\ builtin_methods[ast.order[i]].symbol = <<"c", "a", "t", "c", "h", ":">>
          /\ builtin_methods[ast.order[j]].symbol = <<"t", "r", "y", ":">>
    /\ ast.sends[1].receiver_block.kind = "builtin"
    /\ ast.sends[1].symbol = <<"t", "r", "y", ":">>
    /\ {<<"d", "o">>, <<"c", "a", "t", "c", "h", ":">>} \subseteq program.sent_messages

\* the pairs of the sends with a receiver block whose symbol is not sent
StaticPairsNotSent ==
    { <<receiver_block_tag(program, program.send_list[i]),
        program.send_list[i].symbol>> :
      i \in {j \in 1..Len(program.send_list) :
                /\ program.send_list[j].receiver_block.kind # "none"
                /\ program.send_list[j].symbol \notin program.sent_messages} }

\* C18 as stated: after find_used_methods sent_messages has main, string
\* and the symbol of every send with no receiver_block, called_methods is
\* exactly the pairs of the sends with a receiver_block whose symbol is not
\* in sent_messages, and no pair of called_methods has a sent symbol.
C18_EverySendWithoutBlock ==
    Found =>
        /\ {main, <<"s", "t", "r", "i", "n", "g">>} \subseteq program.sent_messages
        /\ \A i \in 1..Len(program.send_list) :
              program.send_list[i].receiver_block.kind = "none"
                  => program.send_list[i].symbol \in program.sent_messages
        /\ program.called_methods = StaticPairsNotSent
        /\ \A c \in program.called_methods : c[2] \notin program.sent_messages

\* C18: the same of every send that has a receiver expression and no
\* receiver_block; a send with neither, the read of a variable, sends no
\* message.
C18_SendsWithReceiver ==
    Found =>
        /\ {main, <<"s", "t", "r", "i", "n", "g">>} \subseteq program.sent_messages
        /\ \A i \in 1..Len(program.send_list) :
              (/\ program.send_list[i].receiver
               /\ program.send_list[i].receiver_block.kind = "none")
                  => program.send_list[i].symbol \in program.sent_messages
        /\ program.called_methods = StaticPairsNotSent
        /\ \A c \in program.called_methods : c[2] \notin program.sent_messages

\* a dynamic send and a send to a block of the same symbol: the pair of
\* the second is left out of called_methods
C18_Witness ==
    /\ Found
    /\ Len(program.send_list) = 2
    /\ program.send_list[1].receiver
    /\ program.send_list[1].receiver_block.kind = "none"
    /\ program.send_list[2].receiver_block.kind = "block"
    /\ program.send_list[2].symbol = program.send_list[1].symbol
    /\ program.called_methods = {}

\* the pieces of one kind in the order of their emission
Pieces(kinds) == SelectSeq(out, LAMBDA piece : piece.kind \in kinds)

\* the keys are in strictly ascending order
Ascending(keys) ==
    \A i, j \in 1..Len(keys) : i < j => LexLess(keys[i], keys[j])

\* C19: the definitions of the integer constants are emitted in ascending
\* order of their names, the symbols of the code table in strictly ascending
\* order, the method declarations in ascending order of (symbol, tag), the
\* message and the lookup declarations in ascending order of the symbol,
\* the dispatchers of messages without methods in ascending order of the
\* symbol, and the traceback entries in ascending order of the index.
C19_SortedEmission ==
    LET table == program.code_table
        code == Pieces({"method_code"})
        method_decls == Pieces({"method_declaration"})
        message_decls == Pieces({"message_declaration"})
        lookup_decls == Pieces({"lookup_declaration"})
        empty == SelectSeq(out, LAMBDA piece :
                     piece.kind = "dispatcher" /\ piece.tags = <<>>)
        entries == Pieces({"traceback_entry"})
        defines == Pieces({"define"})
    IN  /\ Ascending([i \in 1..Len(defines) |-> ord(defines[i].symbol)])
        /\ Ascending([i \in 1..Len(table) |-> ord(table[i].symbol)])
        /\ \A i, j \in 1..Len(code) :
              i < j => \/ code[i].symbol = code[j].symbol
                       \/ LexLess(ord(code[i].symbol), ord(code[j].symbol))
        /\ Ascending([i \in 1..Len(method_decls) |->
                         ord(method_decls[i].symbol)
                         \o <<0, method_decls[i].tags[1]>>])
        /\ Ascending([i \in 1..Len(message_decls) |-> ord(message_decls[i].symbol)])
        /\ Ascending([i \in 1..Len(lookup_decls) |-> ord(lookup_decls[i].symbol)])
        /\ Ascending([i \in 1..Len(empty) |-> ord(empty[i].symbol)])
        /\ Ascending([i \in 1..Len(entries) |-> <<entries[i].n>>])

\* a program has been emitted with two symbols in its code table, two
\* methods of one symbol, two messages without methods and two traceback
\* entries
C19_Witness ==
    /\ ppc = "done"
    /\ Len(program.code_table) >= 2
    /\ \E i \in 1..Len(program.code_table) :
          Len(program.code_table[i].methods) >= 2
    /\ Len(Pieces({"method_declaration"})) >= 3
    /\ Len(Pieces({"warning"})) >= 2
    /\ Len(Pieces({"traceback_entry"})) >= 2

\* the number of pieces of a kind for a symbol
CountPieces(kind, symbol) ==
    Len(SelectSeq(out, LAMBDA piece : piece.kind = kind /\ piece.symbol = symbol))

\* C20: emit_code_definitions returns normally; every symbol of
\* sent_messages gets exactly one dispatcher and one lookup dispatcher, and
\* for a symbol without an included method both are empty and the warning
\* 'no methods defined for message' is written once, except for 'return'.
C20_EmptyDispatchers ==
    ppc = "done" =>
        /\ program.err = NotRaised
        /\ \A s \in program.sent_messages :
              /\ CountPieces("dispatcher", s) = 1
              /\ CountPieces("lookup_dispatcher", s) = 1
              /\ (\A i \in 1..Len(program.code_table) :
                     program.code_table[i].symbol # s)
                 => /\ \A i \in 1..Len(out) :
                          (/\ out[i].kind \in {"dispatcher", "lookup_dispatcher"}
                           /\ out[i].symbol = s) => out[i].tags = <<>>
                    /\ CountPieces("warning", s)
                          = IF s = <<"r", "e", "t", "u", "r", "n">> THEN 0 ELSE 1

\* 'return' and a message without methods are sent, and the program is
\* emitted to its end with one warning
C20_Witness ==
    /\ ppc = "done"
    /\ {<<"r", "e", "t", "u", "r", "n">>, <<"b", "a", "z">>}
           \subseteq program.sent_messages
    /\ Len(Pieces({"warning"})) = 1
    /\ CountPieces("dispatcher", <<"r", "e", "t", "u", "r", "n">>) = 1

\* compile_traceback_info has run
Traced == ppc \in {"find_used_methods", "build_code_table", "emit_program_text", "done"}

\* the key of the i-th send of the program
TracebackKey(i) ==
    <<program.send_list[i].parse_state.stream_name,
      program.send_list[i].parse_state.line_number,
      program.send_list[i].parse_state.column>>

\* the traceback table after the first k sends of the loop
TableAfter(k) ==
    compile_traceback_info(
        [program EXCEPT !.traceback_table = <<>>,
                        !.send_list = SubSeq(ast.sends, 1, k)], 1).traceback_table

\* C25: after compile_traceback_info the table has one entry per distinct
\* (stream_name, line, column) of the sends with a parse state, numbered
\* 0..n-1 in the order of first occurrence; every such send points to the
\* entry of its position, and each step of the loop keeps the entries made
\* before it.
C25_TracebackTable ==
    Traced =>
        LET sends == program.send_list
            table == program.traceback_table
            stated == {i \in 1..Len(sends) : sends[i].parse_state.set}
            firsts == {i \in stated :
                          \A j \in stated : j < i => TracebackKey(j) # TracebackKey(i)}
        IN  /\ DOMAIN table = {TracebackKey(i) : i \in stated}
            /\ {table[k].index : k \in DOMAIN table}
                  = 0..(Cardinality(DOMAIN table) - 1)
            /\ \A i \in firsts :
                  table[TracebackKey(i)].index
                      = Cardinality({j \in firsts : j < i})
            /\ \A i \in 1..Len(sends) :
                  sends[i].traceback_info
                      = IF i \in stated THEN table[TracebackKey(i)].index ELSE NoTag
            /\ \A k \in 1..Len(sends) :
                  \A key \in DOMAIN TableAfter(k - 1) :
                      /\ key \in DOMAIN TableAfter(k)
                      /\ TableAfter(k)[key] = TableAfter(k - 1)[key]
            /\ TableAfter(Len(sends)) = table

\* two sends at one position after a send at another: two entries
C25_Witness ==
    /\ Traced
    /\ Len(program.send_list) = 3
    /\ \A i \in 1..3 : program.send_list[i].parse_state.set
    /\ TracebackKey(2) = TracebackKey(3)
    /\ TracebackKey(1) # TracebackKey(2)
    /\ program.send_list[2].symbol # program.send_list[3].symbol
    /\ Cardinality(DOMAIN program.traceback_table) = 2

\* C28: a message symbol has a message declaration and a lookup
\* declaration exactly when it has one dispatcher and one lookup
\* dispatcher; none is declared without being defined.
C28_DeclaredIffDefined ==
    ppc = "done" =>
        \A i \in 1..Len(out) :
            out[i].kind \in {"message_declaration", "lookup_declaration",
                             "dispatcher", "lookup_dispatcher"}
            => /\ CountPieces("message_declaration", out[i].symbol) = 1
               /\ CountPieces("lookup_declaration", out[i].symbol) = 1
               /\ CountPieces("dispatcher", out[i].symbol) = 1
               /\ CountPieces("lookup_dispatcher", out[i].symbol) = 1

\* the converse alone: every dispatcher is declared
C28_DefinedAreDeclared ==
    ppc = "done" =>
        \A i \in 1..Len(out) :
            out[i].kind \in {"dispatcher", "lookup_dispatcher"}
            => /\ CountPieces("message_declaration", out[i].symbol) = 1
               /\ CountPieces("lookup_declaration", out[i].symbol) = 1
               /\ CountPieces("dispatcher", out[i].symbol) = 1
               /\ CountPieces("lookup_dispatcher", out[i].symbol) = 1

----------------------------------------------------------------------------
(* Assignment in a statement list (Parser.statement) *)

\* C27: Parser.statement makes a LocalVariable of 'lhs = expr' only when lhs
\* is a single bare name that is neither private nor reserved and has no
\* receiver and no arguments; every other left hand side raises an error, and
\* ':=' always raises 'Mutable variables are only allowed in blocks'.
C27_AssignmentToBareName ==
    (Done /\ inp.kind = "assign") =>
        IF inp.op = <<":", "=">>
        THEN Raised("Mutable variables are only allowed in blocks")
        ELSE IF inp.bare
        THEN /\ NoException
             /\ \E n \in LoggedNodes("LocalVariable") : n.name = inp.lhs
        ELSE /\ ~NoException
             /\ LoggedNodes("LocalVariable") = {}

\* what the code does with a keyword send to the implicit receiver on the left
\* hand side: the variable is named by the symbol of the send and the
\* arguments are dropped
AssignmentToKeywordSend ==
    (Done /\ inp.kind = "assign" /\ inp.op = <<"=">>
          /\ inp.lhs = <<"k", ":", " ", "x">>) =>
        /\ NoException
        /\ \E n \in LoggedNodes("LocalVariable") : n.name = <<"k", ":">>

\* ':=' in a statement list raises whatever stands on its left
MutableAssignmentRaises ==
    (Done /\ inp.kind = "assign" /\ inp.op = <<":", "=">>) =>
        Raised("Mutable variables are only allowed in blocks")

----------------------------------------------------------------------------
(* The indentation stack (Parser.block, Parser.statements, Parser.array) *)

\* C29: whenever Parser.block, Parser.statements or Parser.array returns
\* normally, indent_level, indent_line and indent_stack are what they were
\* at the call, and pop_indent is never called on an empty stack.
C29_IndentationRestored ==
    /\ \A i \in 1..Len(ps.returns) : ps.returns[i].exit = ps.returns[i].entry
    /\ ~(ps.err.kind = "IndexError")

\* a block, a statement list and an array that each started a statement,
\* and so set the indentation, inside an enclosing list, all returned
C29_Witness ==
    /\ Done
    /\ \A method \in {"block", "statements", "array"} :
           \E i \in 1..Len(ps.returns) :
               /\ ps.returns[i].method = method
               /\ ps.returns[i].depth >= 2
               /\ ps.returns[i].started >= 1
               /\ ps.returns[i].entry[1] >= 0

----------------------------------------------------------------------------
(* The x86-64 target and the code builder (ome/target_x86_64.py,           *)
(* ome/builder.py)                                                         *)
(*                                                                         *)
(* A procedure is the list of its assembly lines, a line the record of its *)
(* mnemonic and operands.  The processor runs a procedure one line at a    *)
(* step.  A register holds a word of NUM_BITS bits; the widths are scaled  *)
(* down alike from 64 bits so that TLC's integers hold a word.             *)

\* ome/constants.py: the widths of the tag and of the payload of a tagged
\* value, scaled from 20 and 44; MIN_CONSTANT_TAG is 2^NUM_TAG_BITS and
\* MAX_TAG is 2^(NUM_TAG_BITS - 1) - 1, as defined above
NUM_TAG_BITS == 6

NUM_DATA_BITS == 10

\* the width of a 64-bit register
NUM_BITS == NUM_TAG_BITS + NUM_DATA_BITS

\* the 64-bit register a register name is part of, and the width of the part:
\* eax and edi are the low half, al the low byte (an eighth)
FullRegister(reg) ==
    CASE reg \in {"eax", "al"} -> "rax"
      [] reg = "edi" -> "rdi"
      [] OTHER -> reg

RegisterBits(reg) ==
    CASE reg \in {"eax", "edi"} -> NUM_BITS \div 2
      [] reg = "al" -> NUM_BITS \div 8
      [] OTHER -> NUM_BITS

\* shl, shr and ror of a word by n bits, 0 < n < NUM_BITS
shl(x, n) == (x * 2^n) % 2^NUM_BITS

shr(x, n) == x \div 2^n

ror(x, n) == (x \div 2^n) + (x % 2^n) * 2^(NUM_BITS - n)

\* the bitwise or of two words
RECURSIVE bit_or(_, _)
bit_or(x, y) ==
    IF x = 0 THEN y
    ELSE IF y = 0 THEN x
    ELSE (IF x % 2 = 1 \/ y % 2 = 1 THEN 1 ELSE 0) + 2 * bit_or(x \div 2, y \div 2)

\* the sign bit of a word, bit 63 of a 64-bit register
SignBit == 2^(NUM_BITS - 1)

Negative(x) == x >= SignBit

\* the operands of a line: a register, an immediate, a memory cell at
\* [base+offset] and a label
NoOperand == [k |-> "none"]

Reg(reg) == [k |-> "reg", reg |-> reg]

Imm(n) == [k |-> "imm", n |-> n]

Mem(base, offset) == [k |-> "mem", base |-> base, offset |-> offset]

Lbl(name) == [k |-> "label", name |-> name]

Line(op, a, b) == [op |-> op, a |-> a, b |-> b]

Label(name) == Line("label", Lbl(name), NoOperand)

\* emit.ProcedureCodeEmitter holds the lines of the procedure (main) and the
\* tail emitters in the order of their creation, each with its label (tails).
\* ProcedureCodeEmitter.get_output: the tail emitters follow the lines of the
\* procedure
get_output(emitter) ==
    emitter.main
    \o Flatten([i \in 1..Len(emitter.tails) |->
                   <<Label(emitter.tails[i].label)>> \o emitter.tails[i].lines])

\* Target_x86_64.__init__; err is a ghost field, the exception raised by a
\* call on the target
Target_x86_64(emitter) ==
    [emit |-> emitter, num_jumpback_labels |-> 0, num_traceback_labels |-> 0,
     tracebacks |-> <<>>, err |-> NotRaised]

\* self.emit(...), once for each of lines
emit(t, lines) == [t EXCEPT !.emit.main = @ \o lines]

\* self.emit.tail_emitter(name) and the calls of the tail emitter
tail_emitter(t, name, lines) ==
    [t EXCEPT !.emit.tails = Append(@, [label |-> name, lines |-> lines])]

\* Target_x86_64.emit_enter
emit_enter(t, num_stack_slots) ==
    IF num_stack_slots > 0
    THEN emit(t, <<Line("sub", Reg("rsp"), Imm(num_stack_slots * 8))>>)
    ELSE t

\* emit_leave with the stack slots of the procedure left on the stack
emit_leave_slots_kept(t, num_stack_slots) ==
    emit(t, <<Label(".exit"), Line("ret", NoOperand, NoOperand)>>)

\* Target_x86_64.emit_leave
emit_leave(t, num_stack_slots) ==
    emit(t, <<Label(".exit")>>
            \o (IF num_stack_slots > 0
                THEN <<Line("add", Reg("rsp"), Imm(num_stack_slots * 8))>>
                ELSE <<>>)
            \o <<Line("ret", NoOperand, NoOperand)>>)

\* emit_dispatch whose '.constant' path leaves the constant ID in the tag
\* register
emit_dispatch_constant_id(t, any_constant_tags) ==
    LET t1 == emit(t, <<Line("mov", Reg("rax"), Reg("rdi")),
                        Line("shr", Reg("rax"), Imm(NUM_DATA_BITS)),
                        Line("cmp", Reg("rax"), Imm(Tag_Constant)),
                        Line("je", Lbl(".constant"), NoOperand),
                        Label(".dispatch")>>)
        t2 == tail_emitter(t1, ".constant",
                  <<Line("mov", Reg("eax"), Reg("edi")),
                    Line("jmp", Lbl(".dispatch"), NoOperand)>>)
    IN  tail_emitter(t2, ".not_understood",
            <<Line("jmp", Lbl("OME_not_understood_error"), NoOperand)>>)

\* Target_x86_64.emit_dispatch
emit_dispatch(t, any_constant_tags) ==
    LET t1 == emit(t, <<Line("mov", Reg("rax"), Reg("rdi")),
                        Line("shr", Reg("rax"), Imm(NUM_DATA_BITS))>>
                      \o (IF any_constant_tags
                          THEN <<Line("cmp", Reg("rax"), Imm(Tag_Constant)),
                                 Line("je", Lbl(".constant"), NoOperand)>>
                          ELSE <<>>)
                      \o <<Label(".dispatch")>>)
        t2 == IF any_constant_tags
              THEN tail_emitter(t1, ".constant",
                       <<Line("mov", Reg("eax"), Reg("edi")),
                         Line("add", Reg("eax"), Imm(MIN_CONSTANT_TAG)),
                         Line("jmp", Lbl(".dispatch"), NoOperand)>>)
              ELSE t1
    IN  tail_emitter(t2, ".not_understood",
            <<Line("jmp", Lbl("OME_not_understood_error"), NoOperand)>>)

\* Target_x86_64.emit_dispatch_compare_eq
emit_dispatch_compare_eq(t, tag, tag_label, exit_label) ==
    emit(t, <<Line("cmp", Reg("rax"), Imm(tag)),
              Line("jne", Lbl(exit_label), NoOperand),
              Line("jmp", Lbl(tag_label), NoOperand)>>)

\* Target_x86_64.PUSH
PUSH(t, ins) == emit(t, <<Line("push", Reg(ins.source_reg), NoOperand)>>)

\* CALL testing the result before the stack arguments are popped
CALL_tested_before_pop(t, ins) ==
    LET info == ins.traceback_info
        made == Truthy(info) /\ info.file_info \in DOMAIN t.tracebacks
        new_label == ".traceback_" \o ToString(t.num_traceback_labels)
        traceback_label ==
            IF ~Truthy(info) THEN ".exit"
            ELSE IF made THEN t.tracebacks[info.file_info]
            ELSE new_label
        t1 == IF Truthy(info) /\ ~made
              THEN tail_emitter(
                       [t EXCEPT !.num_traceback_labels = @ + 1,
                                 !.tracebacks = (info.file_info :> new_label) @@ @],
                       new_label,
                       <<Line("lea", Reg("rdi"), Lbl(info.file_info)),
                         Line("lea", Reg("rsi"), Lbl(info.source_line)),
                         Line("call", Lbl("OME_append_traceback"), NoOperand),
                         Line("jmp", Lbl(".exit"), NoOperand)>>)
              ELSE t
    IN  emit(t1, <<Line("call", Lbl(ins.call_label), NoOperand),
                   Line("test", Reg("rax"), Reg("rax")),
                   Line("js", Lbl(traceback_label), NoOperand)>>
                 \o (IF ins.num_stack_args > 0
                     THEN <<Line("add", Reg("rsp"), Imm(ins.num_stack_args * 8))>>
                     ELSE <<>>))

\* Target_x86_64.CALL
CALL(t, ins) ==
    LET info == ins.traceback_info
        made == Truthy(info) /\ info.file_info \in DOMAIN t.tracebacks
        new_label == ".traceback_" \o ToString(t.num_traceback_labels)
        traceback_label ==
            IF ~Truthy(info) THEN ".exit"
            ELSE IF made THEN t.tracebacks[info.file_info]
            ELSE new_label
        t1 == IF Truthy(info) /\ ~made
              THEN tail_emitter(
                       [t EXCEPT !.num_traceback_labels = @ + 1,
                                 !.tracebacks = (info.file_info :> new_label) @@ @],
                       new_label,
                       <<Line("lea", Reg("rdi"), Lbl(info.file_info)),
                         Line("lea", Reg("rsi"), Lbl(info.source_line)),
                         Line("call", Lbl("OME_append_traceback"), NoOperand),
                         Line("jmp", Lbl(".exit"), NoOperand)>>)
              ELSE t
    IN  emit(t1, <<Line("call", Lbl(ins.call_label), NoOperand)>>
                 \o (IF ins.num_stack_args > 0
                     THEN <<Line("add", Reg("rsp"), Imm(ins.num_stack_args * 8))>>
                     ELSE <<>>)
                 \o <<Line("test", Reg("rax"), Reg("rax")),
                      Line("js", Lbl(traceback_label), NoOperand)>>)

\* emit_tag with the tag or-ed in after the rotation
emit_tag_after_rotation(t, reg, tag) ==
    emit(t, <<Line("shl", Reg(reg), Imm(NUM_TAG_BITS)),
              Line("ror", Reg(reg), Imm(NUM_TAG_BITS)),
              Line("or", Reg(reg), Imm(tag))>>)

\* Target_x86_64.emit_tag
emit_tag(t, reg, tag) ==
    emit(t, <<Line("shl", Reg(reg), Imm(NUM_TAG_BITS)),
              Line("or", Reg(reg), Imm(tag)),
              Line("ror", Reg(reg), Imm(NUM_TAG_BITS))>>)

\* Target_x86_64.TAG
TAG(t, ins) ==
    emit_tag(IF ins.dest # ins.source
             THEN emit(t, <<Line("mov", Reg(ins.dest), Reg(ins.source))>>)
             ELSE t,
             ins.dest, ins.tag)

\* Target_x86_64.UNTAG
UNTAG(t, ins) ==
    emit(IF ins.dest # ins.source
         THEN emit(t, <<Line("mov", Reg(ins.dest), Reg(ins.source))>>)
         ELSE t,
         <<Line("shl", Reg(ins.dest), Imm(NUM_TAG_BITS)),
           Line("shr", Reg(ins.dest), Imm(NUM_TAG_BITS))>>)

\* built-in methods that leave the error bit as it is: error: without the
\* or, catch: and try: without the shifts
builtin_method_code_error_bit_kept(symbol) ==
    CASE symbol = "catch:" ->
           <<Line("mov", Reg("rdi"), Reg("rsi")),
             Line("call", Lbl("OME_message_do__0"), NoOperand),
             Line("ret", NoOperand, NoOperand)>>
      [] symbol = "try:" ->
           <<Line("sub", Reg("rsp"), Imm(8)),
             Line("mov", Mem("rsp", 0), Reg("rsi")),
             Line("mov", Reg("rdi"), Reg("rsi")),
             Line("call", Lbl("OME_message_do__0"), NoOperand),
             Line("test", Reg("rax"), Reg("rax")),
             Line("jns", Lbl(".exit"), NoOperand),
             Line("mov", Reg("rdi"), Mem("rsp", 0)),
             Line("mov", Reg("rsi"), Reg("rax")),
             Line("call", Lbl("OME_message_catch__1"), NoOperand),
             Label(".exit"),
             Line("add", Reg("rsp"), Imm(8)),
             Line("ret", NoOperand, NoOperand)>>
      [] symbol = "error:" ->
           <<Line("mov", Reg("rax"), Reg("rsi")),
             Line("shl", Reg("rax"), Imm(1)),
             Line("ror", Reg("rax"), Imm(1)),
             Line("ret", NoOperand, NoOperand)>>

\* the code of the built-in methods catch:, try: and error: in
\* Target_x86_64.builtin_methods; TC_stack_limit is 0 and
\* TC_traceback_pointer is 8
builtin_method_code(symbol) ==
    CASE symbol = "catch:" ->
           <<Line("mov", Reg("rdi"), Reg("rsi")),
             Line("call", Lbl("OME_message_do__0"), NoOperand),
             Line("mov", Reg("rdi"), Mem("rbp", 0)),
             Line("mov", Mem("rbp", 8), Reg("rdi")),
             Line("shl", Reg("rax"), Imm(1)),
             Line("shr", Reg("rax"), Imm(1)),
             Line("ret", NoOperand, NoOperand)>>
      [] symbol = "try:" ->
           <<Line("sub", Reg("rsp"), Imm(8)),
             Line("mov", Mem("rsp", 0), Reg("rsi")),
             Line("mov", Reg("rdi"), Reg("rsi")),
             Line("call", Lbl("OME_message_do__0"), NoOperand),
             Line("test", Reg("rax"), Reg("rax")),
             Line("jns", Lbl(".exit"), NoOperand),
             Line("mov", Reg("rdi"), Mem("rbp", 0)),
             Line("mov", Mem("rbp", 8), Reg("rdi")),
             Line("shl", Reg("rax"), Imm(1)),
             Line("shr", Reg("rax"), Imm(1)),
             Line("mov", Reg("rdi"), Mem("rsp", 0)),
             Line("mov", Reg("rsi"), Reg("rax")),
             Line("call", Lbl("OME_message_catch__1"), NoOperand),
             Label(".exit"),
             Line("add", Reg("rsp"), Imm(8)),
             Line("ret", NoOperand, NoOperand)>>
      [] symbol = "error:" ->
           <<Line("mov", Reg("rax"), Reg("rsi")),
             Line("shl", Reg("rax"), Imm(1)),
             Line("or", Reg("al"), Imm(1)),
             Line("ror", Reg("rax"), Imm(1)),
             Line("ret", NoOperand, NoOperand)>>

\* Instruction.emit: getattr(target, self.__class__.__name__)(self); the
\* target has no method for the other instructions
Instruction_emit(t, ins) ==
    CASE ins.type = "PUSH" -> PUSH(t, ins)
      [] ins.type = "CALL" -> CALL(t, ins)
      [] ins.type = "TAG" -> TAG(t, ins)
      [] ins.type = "UNTAG" -> UNTAG(t, ins)
      [] OTHER -> [t EXCEPT !.err = [kind |-> "AttributeError", message |-> ins.type]]

\* the loop of generate_assembly over self.instructions
RECURSIVE emit_instructions(_, _, _)
emit_instructions(t, instructions, i) ==
    IF i > Len(instructions) \/ t.err # NotRaised THEN t
    ELSE emit_instructions(Instruction_emit(t, instructions[i]), instructions, i + 1)

\* MethodCodeBuilder.generate_assembly with target_type Target_x86_64: the
\* lines of the procedure, or the exception raised
generate_assembly(b) ==
    LET t1 == emit_enter(Target_x86_64([main |-> <<>>, tails |-> <<>>]),
                         b.num_stack_slots)
        t2 == emit_instructions(t1, b.instructions, 1)
        t3 == emit_leave(t2, b.num_stack_slots)
    IN  IF t2.err # NotRaised THEN [err |-> t2.err, output |-> <<>>]
        ELSE [err |-> NotRaised, output |-> get_output(t3.emit)]

\* the dispatcher of a message one tag implements: the prologue, then the
\* comparison with the tag and the jump to the method
single_tag_dispatcher(any_constant_tags, tag, tag_label) ==
    get_output(
        emit_dispatch_compare_eq(
            emit_dispatch(Target_x86_64([main |-> <<>>, tails |-> <<>>]),
                          any_constant_tags),
            tag, tag_label, ".not_understood").emit)

----------------------------------------------------------------------------
(* The optimiser (ome/optimise.py, called by MethodCodeBuilder.optimise)   *)
(*                                                                         *)
(* Before register allocation an instruction is the record of its class    *)
(* (type), its destination local (dest, -1 if it has none) and the locals  *)
(* it reads (args).  Every local is assigned by one instruction.           *)

Ins(type, dest, args) == [type |-> type, dest |-> dest, args |-> args]

\* the source an alias stands for, through every chain of aliases
RECURSIVE ultimate_source(_, _)
ultimate_source(aliases, x) ==
    IF x \in DOMAIN aliases THEN ultimate_source(aliases, aliases[x]) ELSE x

\* optimise.eliminate_aliases: the inputs of every instruction are rewritten
\* to the ultimate source and the ALIAS instructions are dropped
eliminate_aliases(instructions) ==
    LET alias_at == {i \in 1..Len(instructions) : instructions[i].type = "ALIAS"}
        aliases == [d \in {instructions[i].dest : i \in alias_at} |->
                       instructions[CHOOSE i \in alias_at :
                                        instructions[i].dest = d].args[1]]
        rewritten == [i \in 1..Len(instructions) |->
                         [instructions[i] EXCEPT
                              !.args = [k \in 1..Len(@) |->
                                           ultimate_source(aliases, @[k])]]]
        NotAlias(ins) == ins.type # "ALIAS"
    IN  SelectSeq(rewritten, NotAlias)

\* optimise.move_constants_to_usage_points: a LOAD_VALUE or LOAD_STRING
\* whose destination is used at most once is deleted and emitted again
\* immediately before its use
move_constants_to_usage_points(instructions, num_locals) ==
    LET reads == UNION {{<<i, k>> : k \in 1..Len(instructions[i].args)} :
                        i \in 1..Len(instructions)}
        uses(d) == Cardinality({p \in reads : instructions[p[1]].args[p[2]] = d})
        Sunk(ins) == /\ ins.type \in {"LOAD_VALUE", "LOAD_STRING"}
                     /\ uses(ins.dest) <= 1
        constants_of(j) ==
            LET UsedHere(ins) ==
                    /\ Sunk(ins)
                    /\ \E k \in 1..Len(instructions[j].args) :
                           instructions[j].args[k] = ins.dest
            IN  SelectSeq(instructions, UsedHere)
    IN  Flatten([j \in 1..Len(instructions) |->
                    IF Sunk(instructions[j]) THEN <<>>
                    ELSE constants_of(j) \o <<instructions[j]>>])

\* eliminate_redundant_untags from instruction i on; known maps a source to
\* the destination of an UNTAG of it, while neither has been written since
RECURSIVE untags_from(_, _, _)
untags_from(instructions, i, known) ==
    IF i > Len(instructions) THEN <<>>
    ELSE LET ins == instructions[i]
             kept == [s \in {x \in DOMAIN known :
                               x # ins.dest /\ known[x] # ins.dest} |-> known[s]]
         IN  IF ins.type = "UNTAG" /\ ins.args[1] \in DOMAIN known
             THEN <<Ins("ALIAS", ins.dest, <<known[ins.args[1]]>>)>>
                  \o untags_from(instructions, i + 1, kept)
             ELSE IF ins.type = "UNTAG"
             THEN <<ins>> \o untags_from(instructions, i + 1,
                                         (ins.args[1] :> ins.dest) @@ kept)
             ELSE <<ins>> \o untags_from(instructions, i + 1, kept)

\* optimise.eliminate_redundant_untags: the second UNTAG of a source becomes
\* an ALIAS of the destination of the first
eliminate_redundant_untags(instructions) == untags_from(instructions, 1, <<>>)

\* MethodCodeBuilder.optimise, to the call of allocate_registers:
\* instructions is what the register allocator is given.  renumber_locals
\* numbers the locals that are not arguments from num_args on, in their
\* order; passes is a ghost, the functions called in order.
optimise(b) ==
    LET i1 == eliminate_aliases(b.instructions)
        i2 == move_constants_to_usage_points(i1, b.num_locals)
        i3 == eliminate_redundant_untags(i2)
        locals == UNION {{i3[i].dest} \cup {i3[i].args[k] : k \in 1..Len(i3[i].args)} :
                         i \in 1..Len(i3)}
        temps == {x \in locals : x >= b.num_args}
        renumbered(x) ==
            IF x < b.num_args THEN x
            ELSE b.num_args + Cardinality({y \in temps : y < x})
        i4 == [i \in 1..Len(i3) |->
                  [i3[i] EXCEPT !.dest = renumbered(@),
                                !.args = [k \in 1..Len(@) |-> renumbered(@[k])]]]
    IN  [b EXCEPT !.instructions = i4,
                  !.num_locals = b.num_args + Cardinality(temps),
                  !.passes = <<"eliminate_aliases", "move_constants_to_usage_points",
                               "eliminate_redundant_untags", "renumber_locals",
                               "allocate_registers">>]

----------------------------------------------------------------------------
(* The processor                                                           *)
(*                                                                         *)
(* rsp is counted in bytes from its value at the entry of the procedure.   *)
(* Memory is a function of the cells written, a cell the pair of its base  *)
(* and its address.  A call of a procedure outside the text returns with   *)
(* rsp as it was; what it leaves in rax and in the argument registers is   *)
(* the outcome of the call.  trace is the list of the lines executed, each *)
(* with rsp before the line and the registers after it.                    *)

\* the address lea gives for a data label
DataAddress(name) ==
    CASE name = "file_a" -> 1
      [] name = "file_b" -> 2
      [] name = "line_1" -> 3
      [] name = "line_2" -> 4
      [] OTHER -> 0

Processor(rdi, rsi) ==
    [ip |-> 1, rax |-> 0, rdi |-> rdi, rsi |-> rsi, rsp |-> 0,
     mem |-> (<<"rbp", 0>> :> 0) @@ (<<"rbp", 8>> :> 0),
     zf |-> FALSE, sf |-> FALSE, status |-> "running", trace |-> <<>>]

\* the position of a label in the text, 0 for a label outside it
LabelIndex(code, name) ==
    IF \E i \in 1..Len(code) : code[i] = Label(name)
    THEN CHOOSE i \in 1..Len(code) : code[i] = Label(name)
    ELSE 0

Cell(c, o) ==
    IF o.base = "rsp" THEN <<"stack", c.rsp + o.offset>> ELSE <<o.base, o.offset>>

\* the 64-bit register reg
Register(c, reg) ==
    CASE reg = "rax" -> c.rax
      [] reg = "rdi" -> c.rdi
      [] reg = "rsi" -> c.rsi
      [] reg = "rsp" -> c.rsp

\* the value of an operand
Value(c, o) ==
    CASE o.k = "imm" -> o.n
      [] o.k = "label" -> DataAddress(o.name)
      [] o.k = "mem" -> IF Cell(c, o) \in DOMAIN c.mem THEN c.mem[Cell(c, o)] ELSE 0
      [] o.k = "reg" ->
           IF o.reg = "rsp" THEN c.rsp
           ELSE Register(c, FullRegister(o.reg)) % 2^RegisterBits(o.reg)

\* a write to the 64-bit register reg
SetRegister(c, reg, v) ==
    CASE reg = "rax" -> [c EXCEPT !.rax = v]
      [] reg = "rdi" -> [c EXCEPT !.rdi = v]
      [] reg = "rsi" -> [c EXCEPT !.rsi = v]
      [] reg = "rsp" -> [c EXCEPT !.rsp = v]

\* a write to an operand: a write to the low half of a register clears the
\* high half, a write to the low byte leaves the other bits
Write(c, o, v) ==
    IF o.k = "mem" THEN [c EXCEPT !.mem = (Cell(c, o) :> v) @@ @]
    ELSE IF o.reg = "rsp" THEN [c EXCEPT !.rsp = v]
    ELSE IF o.reg = "al"
    THEN SetRegister(c, "rax",
                     c.rax - (c.rax % 2^RegisterBits("al")) + (v % 2^RegisterBits("al")))
    ELSE SetRegister(c, FullRegister(o.reg), v % 2^RegisterBits(o.reg))

\* a jump to a label: a label outside the text leaves the procedure
Jump(c, code, name) ==
    IF LabelIndex(code, name) = 0 THEN [c EXCEPT !.status = "left"]
    ELSE [c EXCEPT !.ip = LabelIndex(code, name)]

\* a call of a procedure outside the text, the traceback function apart
IsCall(line) == line.op = "call" /\ line.a.name # "OME_append_traceback"

\* the line at ip executed; outcome is what a call of a procedure outside
\* the text leaves: rax, and junk in the argument registers.
\* OME_append_traceback leaves rax, rdi and rsi as they were.
Executed(c, code, outcome) ==
    LET line == code[c.ip]
        n == [c EXCEPT !.ip = @ + 1]
        a == line.a
        b == line.b
    IN  CASE line.op = "label" -> n
          [] line.op = "mov" -> Write(n, a, Value(c, b))
          [] line.op = "lea" -> Write(n, a, Value(c, b))
          [] line.op = "add" -> Write(n, a, Value(c, a) + Value(c, b))
          [] line.op = "sub" -> Write(n, a, Value(c, a) - Value(c, b))
          [] line.op = "shl" -> Write(n, a, shl(Value(c, a), b.n))
          [] line.op = "shr" -> Write(n, a, shr(Value(c, a), b.n))
          [] line.op = "ror" -> Write(n, a, ror(Value(c, a), b.n))
          [] line.op = "or" -> Write(n, a, bit_or(Value(c, a), Value(c, b)))
          [] line.op = "test" ->
               [n EXCEPT !.sf = Negative(Value(c, a)), !.zf = Value(c, a) = 0]
          [] line.op = "cmp" ->
               [n EXCEPT !.zf = Value(c, a) = Value(c, b),
                         !.sf = Negative((Value(c, a) - Value(c, b)) % 2^NUM_BITS)]
          [] line.op = "push" ->
               [n EXCEPT !.rsp = @ - 8,
                         !.mem = (<<"stack", c.rsp - 8>> :> Value(c, a)) @@ @]
          [] line.op = "call" ->
               IF a.name = "OME_append_traceback" THEN n
               ELSE [n EXCEPT !.rax = outcome.rax, !.rdi = outcome.junk,
                              !.rsi = outcome.junk]
          [] line.op = "jmp" -> Jump(c, code, a.name)
          [] line.op = "je" -> IF c.zf THEN Jump(c, code, a.name) ELSE n
          [] line.op = "jne" -> IF ~c.zf THEN Jump(c, code, a.name) ELSE n
          [] line.op = "js" -> IF c.sf THEN Jump(c, code, a.name) ELSE n
          [] line.op = "jns" -> IF ~c.sf THEN Jump(c, code, a.name) ELSE n
          [] line.op = "ret" -> [c EXCEPT !.status = "returned"]

\* one step of the processor
Step(c, code, outcome) ==
    IF c.ip > Len(code) THEN [c EXCEPT !.status = "fell off"]
    ELSE LET d == Executed(c, code, outcome)
         IN  [d EXCEPT !.trace =
                  Append(@, [ip |-> c.ip, line |-> code[c.ip], rsp |-> c.rsp,
                             rax |-> d.rax, rdi |-> d.rdi, rsi |-> d.rsi])]

----------------------------------------------------------------------------
(* The procedures under test *)

MaxCalls == 2           \* calls of a procedure
MaxInstructions == 3    \* instructions of a method before optimise, RETURN apart

\* the values 2^k and 2^k - 1 below 2^bits
Samples(bits) == {x \in UNION {{2^k, 2^k - 1} : k \in 0..bits} : x < 2^bits}

TraceBackInfo(file_info, source_line) ==
    [type |-> "TraceBackInfo", file_info |-> file_info, source_line |-> source_line]

\* a call with its arguments on the stack pushed before it, as the register
\* allocator leaves it
CallSite(num_stack_args, traceback_info) ==
    [i \in 1..num_stack_args |-> [type |-> "PUSH", source_reg |-> "rsi"]]
    \o <<[type |-> "CALL", call_label |-> "OME_message_foo__0",
          num_stack_args |-> num_stack_args, traceback_info |-> traceback_info]>>

CallSites ==
    { CallSite(n, info) :
      n \in {0, 2},
      info \in {None, TraceBackInfo("file_a", "line_1"),
                TraceBackInfo("file_a", "line_2"), TraceBackInfo("file_b", "line_1")} }

\* a builder after allocate_registers, or the code under test
Builder(kind, instructions, num_stack_slots, symbol, any_constant_tags, tag, rdi, rsi) ==
    [kind |-> kind, instructions |-> instructions, num_args |-> 1,
     num_locals |-> Len(instructions) + 1, num_stack_slots |-> num_stack_slots,
     passes |-> <<>>, symbol |-> symbol, any_constant_tags |-> any_constant_tags,
     tag |-> tag, rdi |-> rdi, rsi |-> rsi]

\* procedures of calls
ProcedureInputs ==
    { Builder("procedure", Flatten(sites), slots, "", FALSE, 0, 1, 2) :
      sites \in SeqsUpTo(CallSites, MaxCalls) \ {<<>>}, slots \in {0, 2} }

\* a value in rdi tagged and untagged again
TagInputs ==
    { Builder("tag",
              <<[type |-> "TAG", dest |-> dest, source |-> "rdi", tag |-> tag],
                [type |-> "UNTAG", dest |-> "rax", source |-> dest]>>,
              0, "", FALSE, tag, v, 0) :
      dest \in {"rdi", "rsi"}, tag \in 0..(2^NUM_TAG_BITS - 1),
      v \in Samples(NUM_DATA_BITS) }

\* the built-in methods called with a value in rsi
BuiltInInputs ==
    { Builder("builtin", <<>>, 0, symbol, FALSE, 0, 0, v) :
      symbol \in {"catch:", "try:", "error:"}, v \in Samples(NUM_BITS) }

\* the dispatcher of a message of one tag, entered with a receiver in rdi
DispatchInputs ==
    { Builder("dispatch", <<>>, 0, "", any, tag, t * 2^NUM_DATA_BITS + v, 0) :
      any \in BOOLEAN, tag \in {MAX_TAG, constant_id_to_tag(1)},
      t \in Samples(NUM_TAG_BITS),
      v \in 0..MAX_CONSTANT \cup Samples(NUM_DATA_BITS) }

\* the instructions that may assign local i: from an earlier local or from
\* the receiver, local 0
Assignments(i) ==
    {Ins("LOAD_VALUE", i, <<>>)}
    \cup { Ins(type, i, <<x>>) : type \in {"UNTAG", "TAG", "ALIAS"}, x \in 0..(i - 1) }

\* the bodies of n instructions, instruction i assigning local i
RECURSIVE Bodies(_)
Bodies(n) ==
    IF n = 0 THEN {<<>>}
    ELSE { Append(body, ins) : body \in Bodies(n - 1), ins \in Assignments(n) }

\* methods before optimise: a body, and the last local is returned
Unoptimised(n) == { Append(body, Ins("RETURN", -1, <<n>>)) : body \in Bodies(n) }

OptimiseInputs ==
    { Builder("optimise", instructions, 0, "", FALSE, 0, 0, 0) :
      instructions \in UNION {Unoptimised(n) : n \in 1..MaxInstructions} }

BuilderInputs ==
    ProcedureInputs \cup TagInputs \cup BuiltInInputs \cup DispatchInputs
    \cup OptimiseInputs

\* what a call of a procedure outside the text may leave in rax and in the
\* argument registers
Outcomes ==
    { [rax |-> r, junk |-> j] :
      r \in IF builder.kind = "builtin"
            THEN {0, 1, SignBit - 1, SignBit, SignBit + 1, 2^NUM_BITS - 1}
            ELSE {1, SignBit + 1},
      j \in IF builder.kind = "builtin" THEN {0, 2^NUM_BITS - 1} ELSE {0} }

TargetInit ==
    /\ inp = None
    /\ stream = <<>>
    /\ ps = InitState
    /\ result = None
    /\ pc = "idle"
    /\ ast = None
    /\ program = None
    /\ idalloc = None
    /\ out = <<>>
    /\ ppc = "idle"
    /\ builder \in BuilderInputs
    /\ asm = <<>>
    /\ cpu = None
    /\ bpc = CASE builder.kind = "optimise" -> "optimise"
               [] builder.kind \in {"procedure", "tag"} -> "generate_assembly"
               [] builder.kind = "dispatch" -> "emit_dispatcher"
               [] builder.kind = "builtin" -> "builtin_method"

\* MethodCodeBuilder.optimise
Optimise ==
    /\ bpc = "optimise"
    /\ builder' = optimise(builder)
    /\ bpc' = "allocate_registers"
    /\ UNCHANGED <<asm, cpu>>
    /\ UNCHANGED parser_vars
    /\ UNCHANGED program_vars

\* MethodCodeBuilder.generate_assembly, and the entry of the procedure
GenerateAssembly ==
    /\ bpc = "generate_assembly"
    /\ LET r == generate_assembly(builder)
       IN  /\ asm' = r.output
           /\ bpc' = IF r.err = NotRaised THEN "run" ELSE "failed"
    /\ cpu' = Processor(builder.rdi, builder.rsi)
    /\ UNCHANGED builder
    /\ UNCHANGED parser_vars
    /\ UNCHANGED program_vars

\* the dispatcher of a message emitted, and its entry
EmitDispatcher ==
    /\ bpc = "emit_dispatcher"
    /\ asm' = single_tag_dispatcher(builder.any_constant_tags, builder.tag, "OME_method")
    /\ cpu' = Processor(builder.rdi, builder.rsi)
    /\ bpc' = "run"
    /\ UNCHANGED builder
    /\ UNCHANGED parser_vars
    /\ UNCHANGED program_vars

\* the entry of a built-in method
BuiltInMethodEntry ==
    /\ bpc = "builtin_method"
    /\ asm' = builtin_method_code(builder.symbol)
    /\ cpu' = Processor(builder.rdi, builder.rsi)
    /\ bpc' = "run"
    /\ UNCHANGED builder
    /\ UNCHANGED parser_vars
    /\ UNCHANGED program_vars

\* the processor executes the line at ip
Execute ==
    /\ bpc = "run"
    /\ cpu.status = "running"
    /\ \E outcome \in IF cpu.ip <= Len(asm) /\ IsCall(asm[cpu.ip])
                       THEN Outcomes ELSE {[rax |-> 0, junk |-> 0]} :
           cpu' = Step(cpu, asm, outcome)
    /\ UNCHANGED <<builder, asm, bpc>>
    /\ UNCHANGED parser_vars
    /\ UNCHANGED program_vars

TargetNext ==
    \/ Optimise
    \/ GenerateAssembly
    \/ EmitDispatcher
    \/ BuiltInMethodEntry
    \/ Execute

TargetSpec == TargetInit /\ [][TargetNext]_vars

----------------------------------------------------------------------------
(* Properties of the emitted code *)

\* the processor has run the procedure to its return
Returned == bpc = "run" /\ cpu.status = "returned"

\* the positions in the trace of the lines that satisfy Test
Events(Test(_)) == {i \in 1..Len(cpu.trace) : Test(cpu.trace[i].line)}

\* the CALL instructions of the builder, in order
Calls == SelectSeq(builder.instructions, LAMBDA ins : ins.type = "CALL")

\* the CALL instruction the call line at position ip of the text was emitted
\* for: the calls of the text are in the order of the instructions
CallInstruction(ip) == Calls[Cardinality({q \in 1..ip : IsCall(asm[q])})]

\* the position in the trace of the test that follows the call at position i
TestAfter(i) ==
    IF CallInstruction(cpu.trace[i].ip).num_stack_args > 0 THEN i + 2 ELSE i + 1

After(e, reg) ==
    CASE reg = "rax" -> e.rax
      [] reg = "rdi" -> e.rdi
      [] reg = "rsi" -> e.rsi

\* C22: for a tag t below 2^NUM_TAG_BITS and a payload v below
\* 2^NUM_DATA_BITS, the lines of emit_tag give the word
\* t * 2^NUM_DATA_BITS + v, and the lines of UNTAG give v back from it.
C22_TagRoundTrip ==
    (bpc = "run" /\ builder.kind = "tag") =>
        \A i \in 1..Len(cpu.trace) :
            LET e == cpu.trace[i]
            IN  /\ e.line.op = "ror" =>
                      After(e, e.line.a.reg)
                          = builder.tag * 2^NUM_DATA_BITS + builder.rdi
                /\ e.line.op = "shr" => e.rax = builder.rdi

\* the greatest tag and the greatest payload, tagged in another register
\* than the source and untagged
C22_Witness ==
    /\ Returned /\ builder.kind = "tag"
    /\ builder.tag = 2^NUM_TAG_BITS - 1
    /\ builder.rdi = 2^NUM_DATA_BITS - 1
    /\ cpu.rsi = 2^NUM_BITS - 1
    /\ cpu.rax = builder.rdi

\* the positions in the trace of the calls of a message
MessageCalls == Events(IsCall)

\* C23: error: returns its argument with bit 63 set and the other bits as
\* they were; catch: and try: clear bit 63 of an error result and leave the
\* other bits; so clearing the error bit of error:(v) gives v if bit 63 of v
\* is clear, and the result of error: has its sign bit set.
C23_ErrorBit ==
    (Returned /\ builder.kind = "builtin") =>
        CASE builder.symbol = "error:" ->
               /\ cpu.rax = SignBit + (builder.rsi % SignBit)
               /\ Negative(cpu.rax)
               /\ ~Negative(builder.rsi) => shr(shl(cpu.rax, 1), 1) = builder.rsi
          [] builder.symbol = "catch:" ->
               \E i \in MessageCalls :
                   /\ MessageCalls = {i}
                   /\ cpu.rax = cpu.trace[i].rax % SignBit
          [] builder.symbol = "try:" ->
               \E i \in MessageCalls :
                   /\ cpu.trace[i].line.a.name = "OME_message_do__0"
                   /\ IF ~Negative(cpu.trace[i].rax)
                      THEN /\ MessageCalls = {i}
                           /\ cpu.rax = cpu.trace[i].rax
                      ELSE \E j \in MessageCalls :
                               /\ MessageCalls = {i, j}
                               /\ j > i
                               /\ cpu.trace[j].line.a.name = "OME_message_catch__1"
                               /\ cpu.trace[j - 1].rsi = cpu.trace[i].rax % SignBit
                               /\ cpu.trace[j - 1].rdi = builder.rsi
                               /\ cpu.rax = cpu.trace[j].rax

\* error: has returned a value with bits set below bit 63, catch: has
\* cleared the error bit of such a result, and try: has handed one to catch:
C23_Witness ==
    /\ Returned /\ builder.kind = "builtin"
    /\ \/ /\ builder.symbol = "error:"
          /\ builder.rsi = SignBit - 1
          /\ cpu.rax = 2^NUM_BITS - 1
       \/ /\ builder.symbol = "catch:"
          /\ \E i \in MessageCalls : cpu.trace[i].rax = SignBit + 1
          /\ cpu.rax = 1
       \/ /\ builder.symbol = "try:"
          /\ Cardinality(MessageCalls) = 2
          /\ \E i \in MessageCalls : cpu.trace[i].rax = 2^NUM_BITS - 1

IsDispatchLabel(line) == line = Label(".dispatch")

IsConstantComparison(line) == line = Line("cmp", Reg("rax"), Imm(Tag_Constant))

\* the tag and the payload of the receiver of a dispatcher under test
ReceiverTag == builder.rdi \div 2^NUM_DATA_BITS

ReceiverPayload == builder.rdi % 2^NUM_DATA_BITS

\* C24: in a dispatcher with constant tags, a receiver with Tag_Constant and
\* the constant ID c reaches '.dispatch' once, with c + MIN_CONSTANT_TAG in
\* rax, the tag of constant c; a receiver with another tag reaches it once
\* with its tag; the comparison with Tag_Constant is made once.
C24_ConstantDispatch ==
    (/\ bpc = "run" /\ builder.kind = "dispatch" /\ cpu.status # "running"
     /\ builder.any_constant_tags
     /\ ReceiverTag = Tag_Constant => ReceiverPayload <= MAX_CONSTANT) =>
        /\ cpu.status = "left"
        /\ Cardinality(Events(IsDispatchLabel)) = 1
        /\ Cardinality(Events(IsConstantComparison)) = 1
        /\ \A i \in Events(IsDispatchLabel) :
               cpu.trace[i].rax = IF ReceiverTag = Tag_Constant
                                  THEN constant_id_to_tag(ReceiverPayload)
                                  ELSE ReceiverTag

\* the constant with ID 1 has been dispatched to the method of its tag
C24_Witness ==
    /\ bpc = "run" /\ builder.kind = "dispatch" /\ cpu.status = "left"
    /\ builder.any_constant_tags
    /\ ReceiverTag = Tag_Constant /\ ReceiverPayload = 1
    /\ builder.tag = constant_id_to_tag(1)
    /\ cpu.trace[Len(cpu.trace)].line = Line("jmp", Lbl("OME_method"), NoOperand)

\* C26: optimise runs alias elimination, constant sinking, redundant-untag
\* elimination, alias elimination again, local renumbering and register
\* allocation, and no ALIAS instruction reaches the register allocator.
C26_NoAliasAfterOptimise ==
    bpc = "allocate_registers" =>
        /\ builder.passes = <<"eliminate_aliases", "move_constants_to_usage_points",
                              "eliminate_redundant_untags", "eliminate_aliases",
                              "renumber_locals", "allocate_registers">>
        /\ \A i \in 1..Len(builder.instructions) :
               builder.instructions[i].type # "ALIAS"

\* the register allocator is given an ALIAS only for a second UNTAG of one
\* source: a method with at most one UNTAG of each source has none
AliasOnlyFromUntag ==
    (/\ bpc = "allocate_registers"
     /\ \E i \in 1..Len(builder.instructions) :
            builder.instructions[i].type = "ALIAS") =>
        Cardinality({i \in 1..Len(builder.instructions) :
                        builder.instructions[i].type \in {"UNTAG", "ALIAS"}}) >= 2

\* the target has no method for an ALIAS instruction
AliasNotEmitted ==
    bpc = "allocate_registers" =>
        \A i \in 1..Len(builder.instructions) :
            builder.instructions[i].type = "ALIAS" =>
                Instruction_emit(Target_x86_64([main |-> <<>>, tails |-> <<>>]),
                                 builder.instructions[i]).err.kind = "AttributeError"

\* C30: in a procedure of generate_assembly, rsp at 'ret' is rsp at the
\* entry on every path; the prologue subtracts num_stack_slots * 8 exactly
\* when the epilogue adds it; every call has removed its stack arguments
\* when its result is tested.
C30_StackBalanced ==
    (bpc = "run" /\ builder.kind \in {"procedure", "tag"}) =>
        /\ cpu.status \in {"running", "returned"}
        /\ \A i \in 1..Len(cpu.trace) :
               LET e == cpu.trace[i]
               IN  /\ e.line.op = "ret" => e.rsp = 0
                   /\ e.line.op = "test" => e.rsp = -(builder.num_stack_slots * 8)
                   /\ e.line = Label(".exit") => e.rsp = -(builder.num_stack_slots * 8)
        /\ (asm[1] = Line("sub", Reg("rsp"), Imm(builder.num_stack_slots * 8)))
           = (builder.num_stack_slots > 0)
        /\ \A q \in 1..Len(asm) :
               asm[q].op = "ret" =>
                   (asm[q - 1] = Line("add", Reg("rsp"), Imm(builder.num_stack_slots * 8)))
                   = (builder.num_stack_slots > 0)

\* a procedure with stack slots has returned after the error of a call with
\* arguments on the stack, through a traceback stub
C30_Witness ==
    /\ Returned /\ builder.kind = "procedure"
    /\ builder.num_stack_slots > 0
    /\ cpu.rsp = 0
    /\ \E i \in Events(IsCall) :
          /\ CallInstruction(cpu.trace[i].ip).num_stack_args > 0
          /\ Negative(cpu.trace[i].rax)
          /\ cpu.trace[i].rsp < -(builder.num_stack_slots * 8)
    /\ \E j \in 1..Len(cpu.trace) :
          cpu.trace[j].line = Line("call", Lbl("OME_append_traceback"), NoOperand)

====
